---- MODULE Spec2Model ----
(***************************************************************************)
(* Verification model of parts of the holochain repository:                *)
(*   - holo_hash/src/encode.rs: the text codec of 39-byte hashes           *)
(*   - holochain_cascade/.../deterministic.rs: the deterministic agent     *)
(*     activity query                                                      *)
(*   - holochain_integrity_types/src/op.rs: DHT ops                        *)
(*   - holochain/src/conductor/space/tests.rs: region queries              *)
(***************************************************************************)
EXTENDS Integers, Sequences, FiniteSets, TLC

(***************************************************************************)
(* Byte and word arithmetic                                                *)
(***************************************************************************)

RECURSIVE XorNat(_, _)
\* bitwise exclusive or of two naturals (the ^ operator on u8 / u64)
XorNat(a, b) ==
    IF a = 0 THEN b
    ELSE IF b = 0 THEN a
    ELSE 2 * XorNat(a \div 2, b \div 2) + ((a + b) % 2)

\* a ^ b for all pairs of bytes, at index 256 * a + b + 1 of a tuple
XorTable == SubSeq([i \in 1..65536 |-> XorNat((i - 1) \div 256, (i - 1) % 256)], 1, 65536)

\* a ^ b on u8
XorByte(a, b) == XorTable[256 * a + b + 1]

\* a ^ b on 16-bit limbs
Xor16(a, b) ==
    256 * XorTable[256 * (a \div 256) + (b \div 256) + 1] + XorTable[256 * (a % 256) + (b % 256) + 1]

(***************************************************************************)
(* BLAKE2b (RFC 7693) with a 16-byte digest, the function blake2b_128 of   *)
(* encode.rs reaches through blake2b_simd.  A u64 word is a tuple of four  *)
(* 16-bit limbs, least significant first.                                  *)
(***************************************************************************)

\* u64 ^ u64
XorW(x, y) == <<Xor16(x[1], y[1]), Xor16(x[2], y[2]), Xor16(x[3], y[3]), Xor16(x[4], y[4])>>

\* the four limbs of the limb sums s1..s4 after carrying from s3 into s4
Carry3(l1, l2, s3, s4) == <<l1, l2, s3 % 65536, (s4 + (s3 \div 65536)) % 65536>>

\* the same after carrying from s2 into s3
Carry2(l1, s2, s3, s4) == Carry3(l1, s2 % 65536, s3 + (s2 \div 65536), s4)

\* the same after carrying from s1 into s2
Carry1(s1, s2, s3, s4) == Carry2(s1 % 65536, s2 + (s1 \div 65536), s3, s4)

\* wrapping_add of three u64
Add3W(x, y, z) == Carry1(x[1] + y[1] + z[1], x[2] + y[2] + z[2], x[3] + y[3] + z[3], x[4] + y[4] + z[4])

\* wrapping_add of two u64
AddW(x, y) == Carry1(x[1] + y[1], x[2] + y[2], x[3] + y[3], x[4] + y[4])

\* rotate_right(32)
Rotr32(x) == <<x[3], x[4], x[1], x[2]>>

\* rotate_right(16)
Rotr16(x) == <<x[2], x[3], x[4], x[1]>>

\* rotate_right(24)
Rotr24(x) ==
    <<(x[2] \div 256) + 256 * (x[3] % 256),
      (x[3] \div 256) + 256 * (x[4] % 256),
      (x[4] \div 256) + 256 * (x[1] % 256),
      (x[1] \div 256) + 256 * (x[2] % 256)>>

\* rotate_right(63), that is rotate_left(1)
Rotr63(x) ==
    <<((2 * x[1]) % 65536) + (x[4] \div 32768),
      ((2 * x[2]) % 65536) + (x[1] \div 32768),
      ((2 * x[3]) % 65536) + (x[2] \div 32768),
      ((2 * x[4]) % 65536) + (x[3] \div 32768)>>

\* the BLAKE2b initialisation vector
Blake2bIV ==
    << <<51464, 62396, 58983, 27145>>,
       <<42811, 33994, 44677, 47975>>,
       <<63531, 65172, 62322, 15470>>,
       <<14065, 24349, 62778, 42319>>,
       <<33489, 44518, 21119, 20750>>,
       <<27679, 11070, 26764, 39685>>,
       <<48491, 64321, 55723, 8067>>,
       <<8569, 4990, 52505, 23520>> >>

\* the message schedule, rounds 10 and 11 reuse rows 0 and 1
Blake2bSigma ==
    << <<0, 1, 2, 3, 4, 5, 6, 7, 8, 9, 10, 11, 12, 13, 14, 15>>,
       <<14, 10, 4, 8, 9, 15, 13, 6, 1, 12, 0, 2, 11, 7, 5, 3>>,
       <<11, 8, 12, 0, 5, 2, 15, 13, 10, 14, 3, 6, 7, 1, 9, 4>>,
       <<7, 9, 3, 1, 13, 12, 11, 14, 2, 6, 5, 10, 4, 0, 15, 8>>,
       <<9, 0, 5, 7, 2, 4, 10, 15, 14, 1, 11, 12, 6, 8, 3, 13>>,
       <<2, 12, 6, 10, 0, 11, 8, 3, 4, 13, 7, 5, 15, 14, 1, 9>>,
       <<12, 5, 1, 15, 14, 13, 4, 10, 0, 7, 6, 3, 9, 2, 8, 11>>,
       <<13, 11, 7, 14, 12, 1, 3, 9, 5, 0, 15, 4, 8, 6, 2, 10>>,
       <<6, 15, 14, 9, 11, 3, 0, 8, 12, 2, 13, 7, 1, 4, 10, 5>>,
       <<10, 2, 8, 4, 7, 6, 1, 5, 15, 11, 9, 14, 3, 12, 13, 0>> >>

\* the mixing function G, last step: b = (b ^ c).rotate_right(63), and the state update
Blake2bG8(v, a, b, c, d, va, vb, vc, vd) ==
    [v EXCEPT ![a] = va, ![b] = Rotr63(XorW(vb, vc)), ![c] = vc, ![d] = vd]

\* c = c + d
Blake2bG7(v, a, b, c, d, va, vb, vc, vd) == Blake2bG8(v, a, b, c, d, va, vb, AddW(vc, vd), vd)

\* d = (d ^ a).rotate_right(16)
Blake2bG6(v, a, b, c, d, va, vb, vc, vd) == Blake2bG7(v, a, b, c, d, va, vb, vc, Rotr16(XorW(vd, va)))

\* a = a + b + y
Blake2bG5(v, a, b, c, d, y, va, vb, vc, vd) == Blake2bG6(v, a, b, c, d, Add3W(va, vb, y), vb, vc, vd)

\* b = (b ^ c).rotate_right(24)
Blake2bG4(v, a, b, c, d, y, va, vb, vc, vd) ==
    Blake2bG5(v, a, b, c, d, y, va, Rotr24(XorW(vb, vc)), vc, vd)

\* c = c + d
Blake2bG3(v, a, b, c, d, y, va, vb, vc, vd) == Blake2bG4(v, a, b, c, d, y, va, vb, AddW(vc, vd), vd)

\* d = (d ^ a).rotate_right(32)
Blake2bG2(v, a, b, c, d, y, va, vb, vc, vd) ==
    Blake2bG3(v, a, b, c, d, y, va, vb, vc, Rotr32(XorW(vd, va)))

\* the mixing function G on the state indices a, b, c, d (1-based) with message words
\* x and y, first step: a = a + b + x
Blake2bG(v, a, b, c, d, x, y) ==
    Blake2bG2(v, a, b, c, d, y, Add3W(v[a], v[b], x), v[b], v[c], v[d])

\* one round: G on the four columns, then on the four diagonals, with the message
\* words in the order s
Blake2bRound(v, m, s) ==
    Blake2bG(
     Blake2bG(
      Blake2bG(
       Blake2bG(
        Blake2bG(
         Blake2bG(
          Blake2bG(
           Blake2bG(v, 1, 5, 9, 13, m[s[1] + 1], m[s[2] + 1]),
           2, 6, 10, 14, m[s[3] + 1], m[s[4] + 1]),
          3, 7, 11, 15, m[s[5] + 1], m[s[6] + 1]),
         4, 8, 12, 16, m[s[7] + 1], m[s[8] + 1]),
        1, 6, 11, 16, m[s[9] + 1], m[s[10] + 1]),
       2, 7, 12, 13, m[s[11] + 1], m[s[12] + 1]),
      3, 8, 9, 14, m[s[13] + 1], m[s[14] + 1]),
     4, 5, 10, 15, m[s[15] + 1], m[s[16] + 1])

RECURSIVE Blake2bRounds(_, _, _)
\* the rounds after round r gave the 16-word state w
Blake2bNext(w, m, r) == IF Len(w) = 16 THEN Blake2bRounds(w, m, r + 1) ELSE w

\* the 12 rounds on the 16-word state v, r counts the rounds done
Blake2bRounds(v, m, r) ==
    IF r = 12 THEN v
    ELSE Blake2bNext(Blake2bRound(v, m, Blake2bSigma[(r % 10) + 1]), m, r)

\* the 16 message words of the single, zero padded block holding data (at most 128 bytes)
Blake2bBlock(data) ==
    LET byte(i) == IF i <= Len(data) THEN data[i] ELSE 0
    IN  SubSeq([w \in 1..16 |->
                   <<byte(8 * w - 7) + 256 * byte(8 * w - 6), byte(8 * w - 5) + 256 * byte(8 * w - 4),
                     byte(8 * w - 3) + 256 * byte(8 * w - 2), byte(8 * w - 1) + 256 * byte(8 * w)>>],
               1, 16)

\* the little endian bytes of a u64
WordBytes(x) ==
    <<x[1] % 256, x[1] \div 256, x[2] % 256, x[2] \div 256,
      x[3] % 256, x[3] \div 256, x[4] % 256, x[4] \div 256>>

\* the first length bytes of the state words h[0] and h[1] after the compression gave v
Blake2bOutput(v, h0, length) ==
    SubSeq(WordBytes(XorW(h0, XorW(v[1], v[9])))
               \o WordBytes(XorW(Blake2bIV[2], XorW(v[2], v[10]))), 1, length)

\* the compression of the only and last block: the state starts as h and the IV with
\* the byte count and the last-block flag mixed in
Blake2bCompress(data, h0, length) ==
    Blake2bOutput(
        Blake2bRounds(<<h0, Blake2bIV[2], Blake2bIV[3], Blake2bIV[4],
                        Blake2bIV[5], Blake2bIV[6], Blake2bIV[7], Blake2bIV[8],
                        Blake2bIV[1], Blake2bIV[2], Blake2bIV[3], Blake2bIV[4],
                        XorW(Blake2bIV[5], <<Len(data), 0, 0, 0>>), Blake2bIV[6],
                        XorW(Blake2bIV[7], <<65535, 65535, 65535, 65535>>), Blake2bIV[8]>>,
                      Blake2bBlock(data), 0),
        h0, length)

\* blake2b_n(data, length) for one block of data and length <= 16, unkeyed: h[0] is
\* IV[0] ^ 0x01010000 ^ length
blake2b_n(data, length) == Blake2bCompress(data, XorW(Blake2bIV[1], <<length, 257, 0, 0>>), length)

\* internal compute a 16 byte blake2b hash
blake2b_128(data) == blake2b_n(data, 16)

(***************************************************************************)
(* base64 URL_SAFE_NO_PAD (the base64 crate engine encode.rs uses).  A     *)
(* text is the sequence of its UTF-8 bytes.                                *)
(***************************************************************************)

\* the URL-safe alphabet: A-Z a-z 0-9 - _
Base64Alphabet ==
    <<65, 66, 67, 68, 69, 70, 71, 72, 73, 74, 75, 76, 77, 78, 79, 80, 81, 82, 83, 84, 85, 86, 87, 88, 89, 90,
      97, 98, 99, 100, 101, 102, 103, 104, 105, 106, 107, 108, 109, 110, 111, 112, 113, 114, 115, 116, 117,
      118, 119, 120, 121, 122, 48, 49, 50, 51, 52, 53, 54, 55, 56, 57, 45, 95>>

\* Base64Value with the standard alphabet (+ and /) in place of the URL-safe one
Base64ValueStandard(ch) ==
    IF ch >= 65 /\ ch <= 90 THEN ch - 65
    ELSE IF ch >= 97 /\ ch <= 122 THEN ch - 71
    ELSE IF ch >= 48 /\ ch <= 57 THEN ch + 4
    ELSE IF ch = 43 THEN 62
    ELSE IF ch = 47 THEN 63
    ELSE -1

\* the 6-bit value of a symbol, -1 for a byte outside the alphabet ('=' included)
Base64Value(ch) ==
    IF ch >= 65 /\ ch <= 90 THEN ch - 65
    ELSE IF ch >= 97 /\ ch <= 122 THEN ch - 71
    ELSE IF ch >= 48 /\ ch <= 57 THEN ch + 4
    ELSE IF ch = 45 THEN 62
    ELSE IF ch = 95 THEN 63
    ELSE -1

RECURSIVE Base64EncodeFrom(_, _)
\* URL_SAFE_NO_PAD.encode of data[i..]: 3 bytes give 4 symbols, a rest of 1 or 2 bytes
\* gives 2 or 3 symbols and no padding
Base64EncodeFrom(data, i) ==
    LET n == Len(data) - i + 1
        sym(v) == Base64Alphabet[v + 1]
    IN  IF n <= 0 THEN <<>>
        ELSE IF n = 1 THEN <<sym(data[i] \div 4), sym((data[i] % 4) * 16)>>
        ELSE IF n = 2 THEN <<sym(data[i] \div 4),
                             sym((data[i] % 4) * 16 + (data[i + 1] \div 16)),
                             sym((data[i + 1] % 16) * 4)>>
        ELSE <<sym(data[i] \div 4),
               sym((data[i] % 4) * 16 + (data[i + 1] \div 16)),
               sym((data[i + 1] % 16) * 4 + (data[i + 2] \div 64)),
               sym(data[i + 2] % 64)>> \o Base64EncodeFrom(data, i + 3)

\* URL_SAFE_NO_PAD.encode(data)
Base64Encode(data) == Base64EncodeFrom(data, 1)

RECURSIVE Base64DecodeFrom(_, _)
\* the bytes of the symbols s[i..], all symbols valid and the length not 1 mod 4
Base64DecodeFrom(s, i) ==
    LET n == Len(s) - i + 1
        v(k) == Base64Value(s[i + k])
    IN  IF n <= 0 THEN <<>>
        ELSE IF n = 2 THEN <<v(0) * 4 + (v(1) \div 16)>>
        ELSE IF n = 3 THEN <<v(0) * 4 + (v(1) \div 16), (v(1) % 16) * 16 + (v(2) \div 4)>>
        ELSE <<v(0) * 4 + (v(1) \div 16), (v(1) % 16) * 16 + (v(2) \div 4), (v(2) % 4) * 64 + v(3)>>
                 \o Base64DecodeFrom(s, i + 4)

\* URL_SAFE_NO_PAD.decode(s): an error for a byte outside the alphabet (padding is not
\* accepted), for a length of 1 mod 4, and for non-zero bits after the last byte
Base64Decode(s) ==
    IF \E k \in 1..Len(s) : Base64Value(s[k]) = -1 THEN [ok |-> FALSE, bytes |-> <<>>]
    ELSE IF Len(s) % 4 = 1 THEN [ok |-> FALSE, bytes |-> <<>>]
    ELSE IF Len(s) % 4 = 2 /\ Base64Value(s[Len(s)]) % 16 # 0 THEN [ok |-> FALSE, bytes |-> <<>>]
    ELSE IF Len(s) % 4 = 3 /\ Base64Value(s[Len(s)]) % 4 # 0 THEN [ok |-> FALSE, bytes |-> <<>>]
    ELSE [ok |-> TRUE, bytes |-> Base64DecodeFrom(s, 1)]

(***************************************************************************)
(* holo_hash/src/encode.rs                                                 *)
(***************************************************************************)

HOLO_HASH_PREFIX_LEN == 3

HOLO_HASH_CORE_LEN == 32

HOLO_HASH_FULL_LEN == 39

\* the byte 'u'
CharU == 117

\* a panic (failed assertion, slice index out of range) in place of a returned value
Panic == [tag |-> "panic", val |-> <<>>]

\* Err(e) without payload
Err(e) == [tag |-> e, val |-> <<>>]

\* Ok(bytes)
Ok(bytes) == [tag |-> "Ok", val |-> bytes]

\* whether the str slice &s[..i] or &s[i..] is taken without panic: i is within the text
\* and on a char boundary (not in front of a UTF-8 continuation byte)
IsCharBoundary(s, i) ==
    /\ i <= Len(s)
    /\ (i = 0 \/ i = Len(s) \/ s[i + 1] < 128 \/ s[i + 1] > 191)

RECURSIVE XorFoldShort(_, _, _)
\* XorFoldFrom with the loop over (i..12), leaving the last lane out
XorFoldShort(out, hash, i) ==
    IF i >= 12 THEN out
    ELSE XorFoldShort(<<XorByte(out[1], hash[i + 1]), XorByte(out[2], hash[i + 2]),
                        XorByte(out[3], hash[i + 3]), XorByte(out[4], hash[i + 4])>>, hash, i + 4)

RECURSIVE XorFoldFrom(_, _, _)
\* for i in (i..16).step_by(4) { out[k] ^= hash[i + k] }, k = 0..3
XorFoldFrom(out, hash, i) ==
    IF i >= 16 THEN out
    ELSE XorFoldFrom(<<XorByte(out[1], hash[i + 1]), XorByte(out[2], hash[i + 2]),
                       XorByte(out[3], hash[i + 3]), XorByte(out[4], hash[i + 4])>>, hash, i + 4)

\* let mut out = vec![hash[0], hash[1], hash[2], hash[3]]; and the loop from 4
XorFold(hash) == XorFoldFrom(<<hash[1], hash[2], hash[3], hash[4]>>, hash, 4)

\* internal compute the holo dht location u32
holo_dht_location_bytes(data) ==
    IF Len(data) # 32 THEN Panic ELSE Ok(XorFold(blake2b_128(data)))

\* internal REPR for holo hash
holo_hash_encode(data) == <<CharU>> \o Base64Encode(data)

\* DecodeChecksum comparing the location with the slice that ends one byte early
DecodeChecksumShort(s, b, loc_bytes) ==
    IF loc_bytes.tag = "panic" THEN Panic
    ELSE IF SubSeq(loc_bytes.val, 1, 3)
                # SubSeq(b, HOLO_HASH_PREFIX_LEN + HOLO_HASH_CORE_LEN + 1, Len(b) - 1)
         THEN [tag |-> "BadChecksum", val |-> s]
    ELSE IF Len(b) # HOLO_HASH_FULL_LEN THEN Panic
    ELSE Ok(b)

\* the checksum test and the end both PARSE functions share (lines 62..67 and 92..97),
\* loc_bytes being what holo_dht_location_bytes gave for the core of b
DecodeChecksum(s, b, loc_bytes) ==
    IF loc_bytes.tag = "panic" THEN Panic
    ELSE IF loc_bytes.val # SubSeq(b, HOLO_HASH_PREFIX_LEN + HOLO_HASH_CORE_LEN + 1, Len(b))
         THEN [tag |-> "BadChecksum", val |-> s]
    ELSE IF Len(b) # HOLO_HASH_FULL_LEN THEN Panic
    ELSE Ok(b)

\* holo_hash_decode_unchecked from line 56 on, b being the decoded bytes
DecodedUnchecked(s, b) ==
    IF Len(b) # HOLO_HASH_FULL_LEN THEN Err("BadSize")
    ELSE DecodeChecksum(s, b, holo_dht_location_bytes(
             SubSeq(b, HOLO_HASH_PREFIX_LEN + 1, HOLO_HASH_PREFIX_LEN + HOLO_HASH_CORE_LEN)))

\* holo_hash_decode from line 79 on, b being the decoded bytes
Decoded(prefix, s, b) ==
    IF Len(b) # HOLO_HASH_FULL_LEN THEN Err("BadSize")
    ELSE IF SubSeq(b, 1, HOLO_HASH_PREFIX_LEN) # prefix
         THEN [tag |-> "BadPrefix", val |-> SubSeq(b, 1, HOLO_HASH_PREFIX_LEN)]
    ELSE DecodeChecksum(s, b, holo_dht_location_bytes(
             SubSeq(b, HOLO_HASH_PREFIX_LEN + 1, HOLO_HASH_PREFIX_LEN + HOLO_HASH_CORE_LEN)))

\* the match on URL_SAFE_NO_PAD.decode(&s[1..])
MatchDecodeUnchecked(s, d) == IF ~d.ok THEN Err("BadBase64") ELSE DecodedUnchecked(s, d.bytes)

\* the match on URL_SAFE_NO_PAD.decode(&s[1..])
MatchDecode(prefix, s, d) == IF ~d.ok THEN Err("BadBase64") ELSE Decoded(prefix, s, d.bytes)

\* internal PARSE for holo hash REPR
holo_hash_decode_unchecked(s) ==
    IF ~IsCharBoundary(s, 1) THEN Panic
    ELSE IF SubSeq(s, 1, 1) # <<CharU>> THEN Err("NoU")
    ELSE MatchDecodeUnchecked(s, Base64Decode(SubSeq(s, 2, Len(s))))

\* holo_hash_decode without the prefix test
holo_hash_decode_any_prefix(prefix, s) == holo_hash_decode_unchecked(s)

\* internal PARSE for holo hash REPR
holo_hash_decode(prefix, s) ==
    IF ~IsCharBoundary(s, 1) THEN Panic
    ELSE IF SubSeq(s, 1, 1) # <<CharU>> THEN Err("NoU")
    ELSE MatchDecode(prefix, s, Base64Decode(SubSeq(s, 2, Len(s))))

(***************************************************************************)
(* Bounds and inputs of the hash codec                                     *)
(***************************************************************************)

\* how many trailing bytes may be cut from the bytes given to encode
MaxDrop == 2

\* how many trailing symbols may be cut from a text given to decode
MaxTextDrop == 2

\* prefixes of the hash type family, P::get_prefix() of the types AgentPubKey and EntryHash
PrefixFamily == {<<132, 32, 36>>, <<132, 33, 36>>}

\* a 32-byte core: a first byte, a little endian u32, zeros
CoreOf(first, n) ==
    <<first, n % 256, (n \div 256) % 256, (n \div 65536) % 256, n \div 16777216>>
        \o SubSeq([i \in 1..27 |-> 0], 1, 27)

\* the cores hashes are built from
InputCores == {CoreOf(53, 105359), CoreOf(124, 105359), CoreOf(0, 0)}

\* the bit patterns a mutation flips in one byte
ByteDeltas == {73}

\* the bytes an edit puts in place of the leading 'u' or behind the text:
\* 'x', 'A', '=', '!' and the first byte of a two-byte UTF-8 character
EditBytes == {120, 65, 61, 33, 195}

\* a 39-byte hash of the given prefix and core with its location bytes
\* (what HoloHash::from_raw_32 builds and get_raw_39 hands to encode)
RawHash(prefix, core) == prefix \o core \o holo_dht_location_bytes(core).val

(***************************************************************************)
(* State of the hash codec: the bytes handed to encode, the text handed to *)
(* decode, and what decode returned.                                       *)
(***************************************************************************)
VARIABLES
    hOrig,      \* the valid 39-byte hash the run starts from
    hRaw,       \* the bytes handed to holo_hash_encode / holo_dht_location_bytes
    hMut,       \* the position of the one byte of hRaw that was changed, 0 for none
    hText,      \* the text (UTF-8 bytes) handed to the PARSE functions
    hEdit,      \* how the text was edited after encode, "none" if it was not
    hPrefix,    \* the expected prefix handed to holo_hash_decode
    hFn,        \* the function that produced hResult
    hResult,    \* Ok(bytes), Err(e) or Panic
    hPc         \* "raw", "text", "done"

hashVars == <<hOrig, hRaw, hMut, hText, hEdit, hPrefix, hFn, hResult, hPc>>

\* the hash codec switched off: the state of a run about another component
IdleHash ==
    /\ hOrig = <<>> /\ hRaw = <<>> /\ hMut = 0 /\ hText = <<>> /\ hEdit = "none"
    /\ hPrefix = <<>> /\ hFn = "none" /\ hResult = [tag |-> "none", val |-> <<>>]
    /\ hPc = "off"

(***************************************************************************)
(* State of the agent activity authority: the Action and DhtOp tables of   *)
(* its database and the last answer of the deterministic query.            *)
(***************************************************************************)
VARIABLES
    qActions,   \* the Action table joined with DhtOp: row h is the action of hash h
    qPc,        \* "idle", or "answered" while the caller holds a response
    qAgent,     \* the author the query asked for
    qRange,     \* filter.range: <<hash_low (an Option), hash_high>>
    qRows,      \* the rows the statement returned, in the order it returned them
    qResponse   \* DeterministicGetAgentActivityResponse.chain

queryVars == <<qActions, qPc, qAgent, qRange, qRows, qResponse>>

\* the authority switched off
IdleQuery ==
    /\ qActions = <<>> /\ qPc = "off" /\ qAgent = 0 /\ qRange = <<>>
    /\ qRows = <<>> /\ qResponse = <<>>

(***************************************************************************)
(* State of op derivation: an authored action and the ops each node        *)
(* derived from it.                                                        *)
(***************************************************************************)
VARIABLES
    dAction,    \* the action (with its entry hash) handed to the nodes, an Option
    dOps        \* per node the sequence of (basis, op) it derived, an Option

deriveVars == <<dAction, dOps>>

\* op derivation switched off
IdleDerive == dAction = <<>> /\ dOps = <<>>

(***************************************************************************)
(* State of the region queries of a space: its DHT database, the clock and *)
(* what the region queries returned.                                       *)
(***************************************************************************)
VARIABLES
    rOps,       \* the DhtOp table: a sequence of ops, the op hash is the index
    rNow,       \* Timestamp::now(), in ticks since the origin time
    rPc,        \* "idle", "queried", "fetched"
    rQueriedAt, \* the clock when query_region_set ran
    rRegionSet, \* the regions query_region_set returned, each with its data
    rFetched    \* the op hashes handle_fetch_op_data_by_regions returned

regionVars == <<rOps, rNow, rPc, rQueriedAt, rRegionSet, rFetched>>

\* the space switched off
IdleRegion ==
    /\ rOps = <<>> /\ rNow = 0 /\ rPc = "off" /\ rQueriedAt = 0
    /\ rRegionSet = {} /\ rFetched = <<>>

(***************************************************************************)
(* State of the bootstrap service: its store of agent infos, the PUT       *)
(* counter, the system clock, and the requests it answered so far.         *)
(***************************************************************************)
VARIABLES
    bStore,     \* Store: per <<space, agent>> the AgentInfoSigned held for it
    bPUT,       \* the static counter PUT
    bNowMs,     \* UNIX_EPOCH.elapsed().as_millis()
    bLog        \* the requests so far, each with the clock it met and its reply

bootstrapVars == <<bStore, bPUT, bNowMs, bLog>>

\* the bootstrap service is not part of the run
IdleBootstrap == bStore = <<>> /\ bPUT = 0 /\ bNowMs = 0 /\ bLog = <<>>

(***************************************************************************)
(* State of the arq resizing strategy: the strategy, how the build treats  *)
(* integer overflow, and the last derived value asked of the strategy.     *)
(***************************************************************************)
VARIABLES
    sStrat,     \* the ArqStrat
    sChecks,    \* whether the build has overflow checks (debug) or wraps (release)
    sFn,        \* the method called last, "none" before the first call
    sResult     \* what it returned

stratVars == <<sStrat, sChecks, sFn, sResult>>

\* the strategy is not part of the run
IdleStrat == sStrat = <<>> /\ sChecks = FALSE /\ sFn = "off" /\ sResult = <<>>

(***************************************************************************)
(* State of a caller of the HolochainP2p actor: a FetchContext it builds   *)
(* up, and the get requests it issued.                                     *)
(***************************************************************************)
VARIABLES
    aCtx,       \* the FetchContext held, a u32
    aCtxInit,   \* the FetchContext the caller started with
    aCtxPrev,   \* the FetchContext before the last call
    aCall,      \* the last call on the context: <<method, param>>, <<>> before it
    aSet,       \* the methods called with param true so far
    aRequests   \* the get requests issued: <<"get" or "must_get", GetOptions>>

actorVars == <<aCtx, aCtxInit, aCtxPrev, aCall, aSet, aRequests>>

\* the caller is not part of the run
IdleActor ==
    /\ aCtx = 0 /\ aCtxInit = 0 /\ aCtxPrev = 0 /\ aCall = <<"off">>
    /\ aSet = {} /\ aRequests = {}

(***************************************************************************)
(* State of one DNA's validation pipeline                                  *)
(***************************************************************************)
VARIABLES
    vStatus,    \* the validation state of each op, "Absent" before it is received
    vAwake      \* the workers whose trigger was sent and that did not go to sleep yet

validationVars == <<vStatus, vAwake>>

\* the pipeline is not part of the run
IdleValidation == vStatus = <<>> /\ vAwake = {}

(***************************************************************************)
(* State of one fan-out request of the network facade                      *)
(***************************************************************************)
VARIABLES
    nCall,      \* the request in progress: [op, timeout_ms], <<>> when there is none
    nRemote,    \* per remote agent asked: "waiting", "responded" or "timed_out"
    nElapsedMs, \* the time since the request was made
    nResult     \* what the caller received, <<>> before it did

networkVars == <<nCall, nRemote, nElapsedMs, nResult>>

\* the network facade is not part of the run
IdleNetwork == nCall = <<>> /\ nRemote = <<>> /\ nElapsedMs = 0 /\ nResult = <<>>

(***************************************************************************)
(* State of the arq of one local agent under the resize loop               *)
(***************************************************************************)
VARIABLES
    qStrat,     \* the ArqStrat of the node, with its LocalStorageConfig
    qArq,       \* the local arq: [power, count]
    qArqStart,  \* the arq before the first peer-view update
    qView       \* the last peer view: [num_visible_peers, coverage], <<>> before it

resizeVars == <<qStrat, qArq, qArqStart, qView>>

\* the resize loop is not part of the run
IdleResize == qStrat = <<>> /\ qArq = <<>> /\ qArqStart = <<>> /\ qView = <<>>

(***************************************************************************)
(* State of a caller that views an Action as an EntryCreationAction        *)
(***************************************************************************)
VARIABLES
    eAction,    \* the Action handed to try_from, <<>> before
    eView,      \* what EntryCreationAction::try_from returned, NoResult before
    eBack,      \* Action::from of the view, an Option
    eHashes     \* the hashes of the view and of Action::from of it, an Option

viewVars == <<eAction, eView, eBack, eHashes>>

\* no action is viewed in the run
IdleView == eAction = <<>> /\ eView = <<>> /\ eBack = <<>> /\ eHashes = <<>>

(***************************************************************************)
(* State of a ChainCasBuf: its two stores, the last write to it and the    *)
(* last element read from it                                               *)
(***************************************************************************)
VARIABLES
    cCas,       \* the ChainCasBuf: [entries, headers], each a map from address to value
    cWrite,     \* the last write: "put", "delete_entry", "delete_header", "" before it
    cDeleted,   \* whether a delete was called so far
    cPut,       \* the headers of the elements put so far that carry an entry as their header says
    cRead       \* the last get_element: <<header_address, result>>, <<>> before it

casVars == <<cCas, cWrite, cDeleted, cPut, cRead>>

\* no ChainCasBuf is part of the run
IdleCas ==
    /\ cCas = <<>> /\ cWrite = "" /\ cDeleted = FALSE
    /\ cPut = {} /\ cRead = <<"off">>

notHashVars == <<queryVars, deriveVars, regionVars, bootstrapVars, stratVars, actorVars, validationVars, networkVars, resizeVars, viewVars, casVars>>

notQueryVars == <<hashVars, deriveVars, regionVars, bootstrapVars, stratVars, actorVars, validationVars, networkVars, resizeVars, viewVars, casVars>>

notDeriveVars == <<hashVars, queryVars, regionVars, bootstrapVars, stratVars, actorVars, validationVars, networkVars, resizeVars, viewVars, casVars>>

notRegionVars == <<hashVars, queryVars, deriveVars, bootstrapVars, stratVars, actorVars, validationVars, networkVars, resizeVars, viewVars, casVars>>

notBootstrapVars == <<hashVars, queryVars, deriveVars, regionVars, stratVars, actorVars, validationVars, networkVars, resizeVars, viewVars, casVars>>

notStratVars == <<hashVars, queryVars, deriveVars, regionVars, bootstrapVars, actorVars, validationVars, networkVars, resizeVars, viewVars, casVars>>

notActorVars == <<hashVars, queryVars, deriveVars, regionVars, bootstrapVars, stratVars, validationVars, networkVars, resizeVars, viewVars, casVars>>

notValidationVars == <<hashVars, queryVars, deriveVars, regionVars, bootstrapVars, stratVars, actorVars, networkVars, resizeVars, viewVars, casVars>>

notNetworkVars == <<hashVars, queryVars, deriveVars, regionVars, bootstrapVars, stratVars, actorVars, validationVars, resizeVars, viewVars, casVars>>

notResizeVars == <<hashVars, queryVars, deriveVars, regionVars, bootstrapVars, stratVars, actorVars, validationVars, networkVars, viewVars, casVars>>

notViewVars == <<hashVars, queryVars, deriveVars, regionVars, bootstrapVars, stratVars, actorVars, validationVars, networkVars, resizeVars, casVars>>

notCasVars == <<hashVars, queryVars, deriveVars, regionVars, bootstrapVars, stratVars, actorVars, validationVars, networkVars, resizeVars, viewVars>>

vars == <<hashVars, queryVars, deriveVars, regionVars, bootstrapVars, stratVars, actorVars, validationVars, networkVars, resizeVars, viewVars, casVars>>

NoResult == [tag |-> "none", val |-> <<>>]

InitHash ==
    /\ hOrig \in {RawHash(p, c) : p \in PrefixFamily, c \in InputCores}
    /\ hRaw = hOrig
    /\ hMut = 0
    /\ hText = <<>>
    /\ hEdit = "none"
    /\ hPrefix = <<>>
    /\ hFn = "none"
    /\ hResult = NoResult
    /\ hPc = "raw"
    /\ IdleQuery /\ IdleDerive /\ IdleRegion /\ IdleBootstrap /\ IdleStrat /\ IdleActor /\ IdleValidation /\ IdleNetwork /\ IdleResize /\ IdleView /\ IdleCas

\* one byte of the hash gets another value
MutateByte(pos, delta) ==
    /\ hPc = "raw"
    /\ hMut = 0
    /\ Len(hRaw) = HOLO_HASH_FULL_LEN
    /\ hRaw' = [hRaw EXCEPT ![pos] = XorByte(@, delta)]
    /\ hMut' = pos
    /\ UNCHANGED <<notHashVars, hOrig, hText, hEdit, hPrefix, hFn, hResult, hPc>>

\* the bytes lose trailing bytes
DropBytes(n) ==
    /\ hPc = "raw"
    /\ hMut = 0
    /\ Len(hRaw) = HOLO_HASH_FULL_LEN
    /\ hRaw' = SubSeq(hRaw, 1, Len(hRaw) - n)
    /\ UNCHANGED <<notHashVars, hOrig, hMut, hText, hEdit, hPrefix, hFn, hResult, hPc>>

\* the bytes get one more byte
AppendByte ==
    /\ hPc = "raw"
    /\ hMut = 0
    /\ Len(hRaw) = HOLO_HASH_FULL_LEN
    /\ hRaw' = Append(hRaw, 0)
    /\ UNCHANGED <<notHashVars, hOrig, hMut, hText, hEdit, hPrefix, hFn, hResult, hPc>>

\* holo_dht_location_bytes on what lies between the prefix and the last 4 bytes
Locate ==
    /\ hPc = "raw"
    /\ hFn' = "location"
    /\ hResult' = holo_dht_location_bytes(SubSeq(hRaw, HOLO_HASH_PREFIX_LEN + 1, Len(hRaw) - 4))
    /\ hPc' = "done"
    /\ UNCHANGED <<notHashVars, hOrig, hRaw, hMut, hText, hEdit, hPrefix>>

\* holo_hash_encode (Display for HoloHash)
Encode ==
    /\ hPc = "raw"
    /\ hText' = holo_hash_encode(hRaw)
    /\ hPc' = "text"
    /\ UNCHANGED <<notHashVars, hOrig, hRaw, hMut, hEdit, hPrefix, hFn, hResult>>

\* the caller passes the empty text
ClearText ==
    /\ hPc = "text" /\ hEdit = "none"
    /\ hText' = <<>>
    /\ hEdit' = "clear"
    /\ UNCHANGED <<notHashVars, hOrig, hRaw, hMut, hPrefix, hFn, hResult, hPc>>

\* the caller passes a text that lost trailing symbols
DropSymbols(n) ==
    /\ hPc = "text" /\ hEdit = "none"
    /\ hText' = SubSeq(hText, 1, Len(hText) - n)
    /\ hEdit' = "drop"
    /\ UNCHANGED <<notHashVars, hOrig, hRaw, hMut, hPrefix, hFn, hResult, hPc>>

\* the caller passes a text with another leading byte
ReplaceFirst(ch) ==
    /\ hPc = "text" /\ hEdit = "none"
    /\ hText' = [hText EXCEPT ![1] = ch]
    /\ hEdit' = "first"
    /\ UNCHANGED <<notHashVars, hOrig, hRaw, hMut, hPrefix, hFn, hResult, hPc>>

\* the caller passes a text with one more byte at the end
AppendSymbol(ch) ==
    /\ hPc = "text" /\ hEdit = "none"
    /\ hText' = Append(hText, ch)
    /\ hEdit' = "append"
    /\ UNCHANGED <<notHashVars, hOrig, hRaw, hMut, hPrefix, hFn, hResult, hPc>>

\* holo_hash_decode(prefix, s) (TryFrom<&str> for HoloHash<P>)
Decode(prefix) ==
    /\ hPc = "text"
    /\ hPrefix' = prefix
    /\ hFn' = "decode"
    /\ hResult' = holo_hash_decode(prefix, hText)
    /\ hPc' = "done"
    /\ UNCHANGED <<notHashVars, hOrig, hRaw, hMut, hText, hEdit>>

\* holo_hash_decode_unchecked(s)
DecodeUnchecked ==
    /\ hPc = "text"
    /\ hFn' = "unchecked"
    /\ hResult' = holo_hash_decode_unchecked(hText)
    /\ hPc' = "done"
    /\ UNCHANGED <<notHashVars, hOrig, hRaw, hMut, hText, hEdit, hPrefix>>

NextHash ==
    \/ \E pos \in 1..HOLO_HASH_FULL_LEN, delta \in ByteDeltas : MutateByte(pos, delta)
    \/ \E n \in 1..MaxDrop : DropBytes(n)
    \/ AppendByte
    \/ Locate
    \/ Encode
    \/ ClearText
    \/ \E n \in 1..MaxTextDrop : DropSymbols(n)
    \/ \E ch \in EditBytes \ {61, 33} : ReplaceFirst(ch)
    \/ \E ch \in EditBytes \ {120, 195} : AppendSymbol(ch)
    \/ \E prefix \in PrefixFamily : Decode(prefix)
    \/ DecodeUnchecked

SpecHash == InitHash /\ [][NextHash]_vars

(***************************************************************************)
(* Properties of the hash codec                                            *)
(***************************************************************************)

\* the location of a 16-byte digest as the specification defines it: byte k is the
\* exclusive or of the bytes k, k + 4, k + 8 and k + 12
LocationOfDigest(h) ==
    [k \in 1..4 |-> XorByte(XorByte(h[k], h[k + 4]), XorByte(h[k + 8], h[k + 12]))]

\* the last 4 bytes of the 39 bytes b are the location of its core
ChecksumValid(b) ==
    SubSeq(b, HOLO_HASH_PREFIX_LEN + HOLO_HASH_CORE_LEN + 1, HOLO_HASH_FULL_LEN)
        = LocationOfDigest(blake2b_128(SubSeq(b, HOLO_HASH_PREFIX_LEN + 1,
                                              HOLO_HASH_PREFIX_LEN + HOLO_HASH_CORE_LEN)))

\* the bytes the text stands for, <<>> when the text is not 'u' and valid base64
TextBytes == 
    IF Len(hText) = 0 THEN <<>> ELSE Base64Decode(Tail(hText)).bytes

\* C1: hash round trip.  For 39 bytes b with a valid checksum,
\* holo_hash_decode(first 3 bytes of b, holo_hash_encode(b)) returns Ok(b).
C1_RoundTrip ==
    (/\ hPc = "done" /\ hFn = "decode" /\ hEdit = "none"
     /\ Len(hRaw) = HOLO_HASH_FULL_LEN
     /\ hPrefix = SubSeq(hRaw, 1, HOLO_HASH_PREFIX_LEN)
     /\ ChecksumValid(hRaw))
        => hResult = Ok(hRaw)

\* C1 witness: a valid hash was encoded and decoded with its own prefix
C1_Witness ==
    /\ hPc = "done" /\ hFn = "decode" /\ hEdit = "none" /\ hMut = 0
    /\ hRaw = hOrig
    /\ hPrefix = SubSeq(hRaw, 1, HOLO_HASH_PREFIX_LEN)
    /\ hResult.tag = "Ok"

\* the text of a valid hash with exactly one byte changed was decoded with the prefix
\* of the valid hash
MutatedDecoded ==
    /\ hPc = "done" /\ hFn = "decode" /\ hEdit = "none"
    /\ hMut # 0
    /\ hPrefix = SubSeq(hOrig, 1, HOLO_HASH_PREFIX_LEN)

\* C2 as stated: changing any one byte of a valid hash makes holo_hash_decode return
\* an error.
C2_MutationInvalidates ==
    MutatedDecoded => hResult.tag \in {"NoU", "BadBase64", "BadSize", "BadPrefix", "BadChecksum"}

\* the location bytes of the core of the 39 bytes b
CoreLocation(b) ==
    LocationOfDigest(blake2b_128(SubSeq(b, HOLO_HASH_PREFIX_LEN + 1,
                                        HOLO_HASH_PREFIX_LEN + HOLO_HASH_CORE_LEN)))

\* C2 amended: a changed prefix byte gives BadPrefix, a changed checksum byte gives
\* BadChecksum, and a changed core byte gives BadChecksum unless the changed core has
\* the location of the original core, in which case the changed bytes are returned.
C2_MutationInvalidatesUnlessSameLocation ==
    MutatedDecoded =>
        IF hMut <= HOLO_HASH_PREFIX_LEN THEN hResult.tag = "BadPrefix"
        ELSE IF hMut > HOLO_HASH_PREFIX_LEN + HOLO_HASH_CORE_LEN THEN hResult.tag = "BadChecksum"
        ELSE IF CoreLocation(hRaw) = CoreLocation(hOrig) THEN hResult = Ok(hRaw)
        ELSE hResult.tag = "BadChecksum"

\* C2 witness: a core byte was changed and the decode failed on the checksum
C2_Witness ==
    /\ MutatedDecoded
    /\ hMut > HOLO_HASH_PREFIX_LEN /\ hMut <= HOLO_HASH_PREFIX_LEN + HOLO_HASH_CORE_LEN
    /\ hResult.tag = "BadChecksum"

\* C3 as stated: holo_hash_decode returns Ok(39 bytes) or one of the five errors for
\* every text, the empty one included, and never aborts.
C3_DecodeTotal ==
    (hPc = "done" /\ hFn = "decode") =>
        \/ hResult.tag \in {"NoU", "BadBase64", "BadSize", "BadPrefix", "BadChecksum"}
        \/ hResult.tag = "Ok" /\ Len(hResult.val) = HOLO_HASH_FULL_LEN

\* C4 as stated: neither PARSE function returns Ok for a text whose bytes have a prefix
\* outside the expected one (the type family for the unchecked function), a length
\* other than 39 or a wrong checksum.
C4_ParseVerifiesAll ==
    (hPc = "done" /\ hFn \in {"decode", "unchecked"} /\ hResult.tag = "Ok") =>
        /\ Len(TextBytes) = HOLO_HASH_FULL_LEN
        /\ ChecksumValid(TextBytes)
        /\ IF hFn = "decode"
           THEN SubSeq(TextBytes, 1, HOLO_HASH_PREFIX_LEN) = hPrefix
           ELSE SubSeq(TextBytes, 1, HOLO_HASH_PREFIX_LEN) \in PrefixFamily

\* C4 amended: both PARSE functions verify the length and the checksum, and
\* holo_hash_decode verifies the prefix; holo_hash_decode_unchecked does not.
C4_ParseVerifiesLengthChecksum ==
    (hPc = "done" /\ hFn \in {"decode", "unchecked"} /\ hResult.tag = "Ok") =>
        /\ Len(TextBytes) = HOLO_HASH_FULL_LEN
        /\ ChecksumValid(TextBytes)
        /\ hResult.val = TextBytes
        /\ hFn = "decode" => SubSeq(TextBytes, 1, HOLO_HASH_PREFIX_LEN) = hPrefix

\* C4 witness: holo_hash_decode_unchecked returned Ok for bytes with a prefix outside
\* the type family
C4_Witness ==
    /\ hPc = "done" /\ hFn = "unchecked" /\ hResult.tag = "Ok"
    /\ SubSeq(hResult.val, 1, HOLO_HASH_PREFIX_LEN) \notin PrefixFamily

\* C5: for a 32-byte core with digest h, holo_dht_location_bytes returns the 4 bytes
\* h[k] xor h[k+4] xor h[k+8] xor h[k+12], k = 0..3.
C5_LocationIsXorFold ==
    (hPc = "done" /\ hFn = "location" /\ Len(hRaw) = HOLO_HASH_FULL_LEN) =>
        /\ hResult.tag = "Ok"
        /\ Len(hResult.val) = 4
        /\ hResult.val = CoreLocation(hRaw)

\* C5 witness: the location of the changed core of a hash was computed
C5_Witness ==
    /\ hPc = "done" /\ hFn = "location" /\ hResult.tag = "Ok"
    /\ hMut > HOLO_HASH_PREFIX_LEN /\ hMut <= HOLO_HASH_PREFIX_LEN + HOLO_HASH_CORE_LEN

(***************************************************************************)
(* Deterministic agent activity query                                      *)
(* (holochain_cascade/src/authority/get_agent_activity_query/              *)
(* deterministic.rs).  An action hash is the number of the row the action  *)
(* has in the Action table; an Option is a sequence of at most one value.  *)
(***************************************************************************)

\* how many actions the authority stores
MaxActions == 3

\* how many stored actions may be irregular: with a prev_action that is no stored
\* action of the same author and of seq one less, or without an integrated
\* RegisterAgentActivity op; one stored action in three
MaxIrregular == MaxActions \div 3

\* the largest action_seq an action claims: that of the last action of a chain of
\* MaxActions actions
MaxSeq == MaxActions - 1

None == <<>>

Some(x) == <<x>>

\* the authors of the stored actions
Agents == {1, 2}

\* the DhtOp row of an integrated RegisterAgentActivity op
IntegratedActivity ==
    [type |-> "RegisterAgentActivity", validation_status |-> "Valid", when_integrated |-> "set"]

\* DhtOp rows the query must not see: ops validated and not integrated, ops not yet
\* validated, ops of another type
UnintegratedOps ==
    {[type |-> "RegisterAgentActivity", validation_status |-> "Valid", when_integrated |-> "NULL"],
     [type |-> "RegisterAgentActivity", validation_status |-> "NULL", when_integrated |-> "NULL"],
     [type |-> "StoreRecord", validation_status |-> "Valid", when_integrated |-> "set"]}

\* SELECT seq FROM Action WHERE hash = :hash, an Option: None for SQL's NULL
SeqOfHash(actions, hash) ==
    IF hash \in DOMAIN actions THEN Some(actions[hash].seq) ELSE None

\* the mutant of RowSelected: the low end of the range is left out
RowSelectedAboveLow(actions, h, agent, range) ==
    /\ actions[h].author = agent
    /\ actions[h].op.type = "RegisterAgentActivity"
    /\ actions[h].op.validation_status # "NULL"
    /\ actions[h].op.when_integrated # "NULL"
    /\ \/ range[1] = None
       \/ /\ SeqOfHash(actions, range[1][1]) # None
          /\ actions[h].seq > SeqOfHash(actions, range[1][1])[1]
    /\ SeqOfHash(actions, range[2]) # None
    /\ actions[h].seq <= SeqOfHash(actions, range[2])[1]

\* the mutant of RowSelected: the op need not be validated or integrated
RowSelectedUnintegrated(actions, h, agent, range) ==
    /\ actions[h].author = agent
    /\ actions[h].op.type = "RegisterAgentActivity"
    /\ \/ range[1] = None
       \/ /\ SeqOfHash(actions, range[1][1]) # None
          /\ actions[h].seq >= SeqOfHash(actions, range[1][1])[1]
    /\ SeqOfHash(actions, range[2]) # None
    /\ actions[h].seq <= SeqOfHash(actions, range[2])[1]

\* the WHERE clause of the statement for the row of action h; a comparison with NULL
\* is not true
RowSelected(actions, h, agent, range) ==
    /\ actions[h].author = agent
    /\ actions[h].op.type = "RegisterAgentActivity"
    /\ actions[h].op.validation_status # "NULL"
    /\ actions[h].op.when_integrated # "NULL"
    /\ \/ range[1] = None
       \/ /\ SeqOfHash(actions, range[1][1]) # None
          /\ actions[h].seq >= SeqOfHash(actions, range[1][1])[1]
    /\ SeqOfHash(actions, range[2]) # None
    /\ actions[h].seq <= SeqOfHash(actions, range[2])[1]

\* the hashes of the rows the statement selects
SelectedHashes(actions, agent, range) ==
    {h \in DOMAIN actions : RowSelected(actions, h, agent, range)}

\* ORDER BY H.seq DESC: every order of the hashes in S with seq descending; rows of
\* equal seq come in any order
RECURSIVE OrderBySeqDesc(_, _)
OrderBySeqDesc(actions, S) ==
    IF S = {} THEN {<<>>}
    ELSE UNION {{<<h>> \o r : r \in OrderBySeqDesc(actions, S \ {h})} :
                h \in {x \in S : \A y \in S : actions[y].seq <= actions[x].seq}}

\* as_map: the item of a row, the action with its hash
Item(actions, h) == [hash |-> h, action |-> actions[h]]

\* init_fold
init_fold(range) == [chain |-> <<>>, prev_action |-> Some(range[2])]

\* the mutant of fold: every row is pushed
fold_every_row(state, item) ==
    [chain |-> Append(state.chain, item), prev_action |-> item.action.prev_action]

\* fold
fold(state, item) ==
    IF Some(item.hash) = state.prev_action
    THEN [chain |-> Append(state.chain, item), prev_action |-> item.action.prev_action]
    ELSE state

\* the fold state after the first k rows
RECURSIVE FoldRows(_, _, _)
FoldRows(range, rows, k) ==
    IF k = 0 THEN init_fold(range) ELSE fold(FoldRows(range, rows, k - 1), rows[k])

\* render
render(state) == state.chain

\* a hash under which the Action table has no row
UnstoredHash == MaxActions + 1

\* the action of hash h follows the chain rules: a first action has seq 0, another
\* one follows a stored action of its author with the next seq
FollowsChain(actions, h) ==
    IF actions[h].prev_action = None THEN actions[h].seq = 0
    ELSE /\ actions[h].prev_action[1] \in DOMAIN actions
         /\ actions[actions[h].prev_action[1]].author = actions[h].author
         /\ actions[h].seq = actions[actions[h].prev_action[1]].seq + 1

\* the action of hash h follows the chain rules and its activity op is integrated
IsRegular(actions, h) ==
    actions[h].op = IntegratedActivity /\ FollowsChain(actions, h)

\* the hashes a caller or an action may name: the stored ones and one that is not
KnownHashes == (1..Len(qActions)) \cup {UnstoredHash}

InitQuery ==
    /\ qActions = <<>>
    /\ qPc = "idle"
    /\ qAgent = 0
    /\ qRange = <<>>
    /\ qRows = <<>>
    /\ qResponse = <<>>
    /\ IdleHash /\ IdleDerive /\ IdleRegion /\ IdleBootstrap /\ IdleStrat /\ IdleActor /\ IdleValidation /\ IdleNetwork /\ IdleResize /\ IdleView /\ IdleCas

\* fill_db: an action and its op reach the database, the actions of one author after
\* those of the author before; an action that breaks the chain rules has an
\* integrated op
FillDb(author, prev, seq, op) ==
    /\ qPc = "idle"
    /\ Len(qActions) < MaxActions
    /\ IF prev = None THEN TRUE ELSE prev[1] \in KnownHashes
    /\ qActions' = Append(qActions, [author |-> author, seq |-> seq, prev_action |-> prev, op |-> op])
    /\ qActions # <<>> => qActions[Len(qActions)].author <= author
    /\ op = IntegratedActivity \/ FollowsChain(qActions', Len(qActions'))
    /\ Cardinality({h \in DOMAIN qActions' : ~IsRegular(qActions', h)}) <= MaxIrregular
    /\ UNCHANGED <<notQueryVars, qPc, qAgent, qRange, qRows, qResponse>>

\* handle_get_agent_activity_deterministic: the statement runs, its rows are mapped
\* and folded in the order returned, the final state is rendered
Query(agent, range) ==
    /\ qPc = "idle"
    /\ IF range[1] = None THEN TRUE ELSE range[1][1] \in KnownHashes
    /\ range[2] \in KnownHashes
    /\ \E order \in OrderBySeqDesc(qActions, SelectedHashes(qActions, agent, range)) :
          /\ qRows' = [k \in DOMAIN order |-> Item(qActions, order[k])]
          /\ qResponse' = render(FoldRows(range, qRows', Len(order)))
    /\ qAgent' = agent
    /\ qRange' = range
    /\ qPc' = "answered"
    /\ UNCHANGED <<notQueryVars, qActions>>

\* the caller is done with the response
Return ==
    /\ qPc = "answered"
    /\ qPc' = "idle"
    /\ qAgent' = 0
    /\ qRange' = <<>>
    /\ qRows' = <<>>
    /\ qResponse' = <<>>
    /\ UNCHANGED <<notQueryVars, qActions>>

NextQuery ==
    \/ \E author \in Agents, prev \in {None} \cup {Some(h) : h \in 1..UnstoredHash},
          seq \in 0..MaxSeq, op \in {IntegratedActivity} \cup UnintegratedOps :
            FillDb(author, prev, seq, op)
    \/ \E agent \in Agents, low \in {None} \cup {Some(h) : h \in 1..UnstoredHash},
          high \in 1..UnstoredHash :
            Query(agent, <<low, high>>)
    \/ Return

SpecQuery == InitQuery /\ [][NextQuery]_vars

(***************************************************************************)
(* Properties of the deterministic agent activity query                    *)
(***************************************************************************)

\* the hashes of the stored actions of the agent whose RegisterAgentActivity op is
\* integrated
ActivityOf(agent) ==
    {h \in DOMAIN qActions :
        /\ qActions[h].author = agent
        /\ qActions[h].op.type = "RegisterAgentActivity"
        /\ qActions[h].op.validation_status # "NULL"
        /\ qActions[h].op.when_integrated # "NULL"}

\* the integrated activity of the agent is a chain a[0..n-1] without a fork:
\* a[i].seq = i and a[i].prev_action = hash(a[i-1])
ForkFreeChain(agent) ==
    /\ \A i \in 0..(Cardinality(ActivityOf(agent)) - 1) :
          \E h \in ActivityOf(agent) : qActions[h].seq = i
    /\ \A h \in ActivityOf(agent) :
          qActions[h].seq > 0 =>
              /\ qActions[h].prev_action # None
              /\ qActions[h].prev_action[1] \in ActivityOf(agent)
              /\ qActions[qActions[h].prev_action[1]].seq = qActions[h].seq - 1

\* the hash of a[i]
ChainAt(agent, i) == CHOOSE h \in ActivityOf(agent) : qActions[h].seq = i

\* the range of the answered query names actions of the chain of the agent, the low
\* one (when given) not above the high one
RangeInChain ==
    /\ qRange[2] \in ActivityOf(qAgent)
    /\ \/ qRange[1] = None
       \/ /\ qRange[1][1] \in ActivityOf(qAgent)
          /\ qActions[qRange[1][1]].seq <= qActions[qRange[2]].seq

\* the seq of the low end of the range, 0 when there is none
LowSeq == IF qRange[1] = None THEN 0 ELSE qActions[qRange[1][1]].seq

\* C6: on a fork-free chain a[0..n-1] of the agent the query with range
\* (Some(hash(a[i])), hash(a[j])), i <= j, returns a[j], a[j-1], ..., a[i], and with
\* range (None, hash(a[j])) it returns a[j], ..., a[0], whatever other authors'
\* actions the store holds.
C6_ForkFreeSlice ==
    (qPc = "answered" /\ ForkFreeChain(qAgent) /\ RangeInChain) =>
        /\ Len(qResponse) = qActions[qRange[2]].seq - LowSeq + 1
        /\ \A k \in DOMAIN qResponse :
              qResponse[k] = Item(qActions, ChainAt(qAgent, qActions[qRange[2]].seq - k + 1))

\* C6 witness: with another author's integrated activity in the store, the range from
\* a[0] to a[1] of a fork-free chain was answered with two actions
C6_Witness ==
    /\ qPc = "answered" /\ ForkFreeChain(qAgent) /\ RangeInChain
    /\ \E other \in Agents \ {qAgent} : ActivityOf(other) # {}
    /\ qRange[1] # None
    /\ qActions[qRange[1][1]].seq = 0 /\ qActions[qRange[2]].seq = 1
    /\ Len(qResponse) = 2

\* the integrated activity of the agent has a fork: two actions of the same seq or of
\* the same prev_action
HasFork(agent) ==
    \E h1, h2 \in ActivityOf(agent) :
        /\ h1 # h2
        /\ \/ qActions[h1].seq = qActions[h2].seq
           \/ qActions[h1].prev_action = qActions[h2].prev_action

\* the hashes of the stored actions reached from hash h by following prev_action
RECURSIVE BranchFrom(_)
BranchFrom(h) ==
    IF h \notin DOMAIN qActions THEN {}
    ELSE IF qActions[h].prev_action = None THEN {h}
    ELSE {h} \cup BranchFrom(qActions[h].prev_action[1])

\* C7: when the activity of the agent has a fork, every returned action lies on the
\* branch reached from range.high by following prev_action, and every row whose hash
\* is not the expected prev_action leaves chain and expected prev_action as they were.
C7_ForkBranchOnly ==
    (qPc = "answered" /\ HasFork(qAgent)) =>
        /\ \A k \in DOMAIN qResponse : qResponse[k].hash \in BranchFrom(qRange[2])
        /\ \A k \in DOMAIN qRows :
              Some(qRows[k].hash) # FoldRows(qRange, qRows, k - 1).prev_action
                  => FoldRows(qRange, qRows, k) = FoldRows(qRange, qRows, k - 1)
        /\ qResponse = FoldRows(qRange, qRows, Len(qRows)).chain

\* C7 witness: a row of a fork was dropped between two rows that were kept
C7_Witness ==
    /\ qPc = "answered" /\ HasFork(qAgent)
    /\ Len(qResponse) >= 2
    /\ \E k \in DOMAIN qRows :
          /\ Some(qRows[k].hash) # FoldRows(qRange, qRows, k - 1).prev_action
          /\ FoldRows(qRange, qRows, k - 1).chain # <<>>
          /\ Len(FoldRows(qRange, qRows, k - 1).chain) < Len(qResponse)

(***************************************************************************)
(* Op derivation (holochain_integrity_types/src/op.rs): the ops an action  *)
(* produces and the basis each op is stored under.                         *)
(***************************************************************************)

\* the variants of Action that produce no op of their own
PlainActionTypes == {"Dna", "AgentValidationPkg", "InitZomesComplete", "OpenChain", "CloseChain"}

\* the variants of Action
ActionTypes == PlainActionTypes \cup {"Create", "Update", "Delete", "CreateLink", "DeleteLink"}

\* the variants of Op
OpTypes ==
    {"StoreRecord", "StoreEntry", "RegisterUpdate", "RegisterDelete",
     "RegisterAgentActivity", "RegisterCreateLink", "RegisterDeleteLink"}

\* the nodes that derive ops
Nodes == {"node1", "node2"}

\* the hashes actions are built from
ActionHashes == {"action1", "action2"}

AuthorKeys == {"alice", "bob"}

EntryHashes == {"entry1", "entry2"}

\* an action: its variant, hash and author, and the hashes its variant carries
\* (None where the variant has no such field)
MakeAction(type, hash, author, entry_hash, original_entry_address, deletes_entry_address, base_address) ==
    [type |-> type, hash |-> hash, author |-> author, entry_hash |-> entry_hash,
     original_entry_address |-> original_entry_address,
     deletes_entry_address |-> deletes_entry_address, base_address |-> base_address]

\* the actions an author writes
AuthoredActions ==
    UNION {
        {MakeAction(t, h, a, None, None, None, None) : t \in PlainActionTypes}
        \cup {MakeAction("Create", h, a, Some(e), None, None, None) : e \in EntryHashes}
        \cup {MakeAction("Update", h, a, Some(e), Some(o), None, None) : e, o \in EntryHashes}
        \cup {MakeAction("Delete", h, a, None, None, Some(e), None) : e \in EntryHashes}
        \cup {MakeAction("CreateLink", h, a, None, None, None, Some(e)) : e \in EntryHashes}
        \cup {MakeAction("DeleteLink", h, a, None, None, None, Some(e)) : e \in EntryHashes}
        : h \in ActionHashes, a \in AuthorKeys}

\* an op of the given variant about the action, with the basis it is stored under
BasisOp(basis, type, action) == [basis |-> basis, op |-> [type |-> type, action |-> action.hash]]

\* the mutant of derive: an Update registers no update
derive_without_register_update(action) ==
    <<BasisOp(action.hash, "StoreRecord", action),
      BasisOp(action.author, "RegisterAgentActivity", action)>> \o
    (IF action.type \in {"Create", "Update"}
        THEN <<BasisOp(action.entry_hash[1], "StoreEntry", action)>>
     ELSE IF action.type = "Delete"
        THEN <<BasisOp(action.deletes_entry_address[1], "RegisterDelete", action)>>
     ELSE IF action.type = "CreateLink"
        THEN <<BasisOp(action.base_address[1], "RegisterCreateLink", action)>>
     ELSE IF action.type = "DeleteLink"
        THEN <<BasisOp(action.base_address[1], "RegisterDeleteLink", action)>>
     ELSE <<>>)

\* derive(action, entry?): the (basis, op) pairs of an action
derive(action) ==
    <<BasisOp(action.hash, "StoreRecord", action),
      BasisOp(action.author, "RegisterAgentActivity", action)>> \o
    (IF action.type = "Create"
        THEN <<BasisOp(action.entry_hash[1], "StoreEntry", action)>>
     ELSE IF action.type = "Update"
        THEN <<BasisOp(action.entry_hash[1], "StoreEntry", action),
               BasisOp(action.original_entry_address[1], "RegisterUpdate", action)>>
     ELSE IF action.type = "Delete"
        THEN <<BasisOp(action.deletes_entry_address[1], "RegisterDelete", action)>>
     ELSE IF action.type = "CreateLink"
        THEN <<BasisOp(action.base_address[1], "RegisterCreateLink", action)>>
     ELSE IF action.type = "DeleteLink"
        THEN <<BasisOp(action.base_address[1], "RegisterDeleteLink", action)>>
     ELSE <<>>)

InitDerive ==
    /\ dAction = None
    /\ dOps = [n \in Nodes |-> None]
    /\ IdleHash /\ IdleQuery /\ IdleRegion /\ IdleBootstrap /\ IdleStrat /\ IdleActor /\ IdleValidation /\ IdleNetwork /\ IdleResize /\ IdleView /\ IdleCas

\* an author writes an action and hands it to the nodes
Author(action) ==
    /\ dAction = None
    /\ dAction' = Some(action)
    /\ UNCHANGED <<notDeriveVars, dOps>>

\* a node derives the ops of the action
Derive(n) ==
    /\ dAction # None
    /\ dOps[n] = None
    /\ dOps' = [dOps EXCEPT ![n] = Some(derive(dAction[1]))]
    /\ UNCHANGED <<notDeriveVars, dAction>>

\* the ops are published and the nodes are ready for the next action
Publish ==
    /\ \A n \in Nodes : dOps[n] # None
    /\ dAction' = None
    /\ dOps' = [n \in Nodes |-> None]
    /\ UNCHANGED notDeriveVars

NextDerive ==
    \/ \E action \in AuthoredActions : Author(action)
    \/ \E n \in Nodes : Derive(n)
    \/ Publish

SpecDerive == InitDerive /\ [][NextDerive]_vars

\* how many of the pairs are ops of the given variant stored under the given basis
OpCount(pairs, type, basis) ==
    Cardinality({k \in DOMAIN pairs : pairs[k].op.type = type /\ pairs[k].basis = basis})

\* how many of the pairs are ops of the given variant
OpsOfType(pairs, type) ==
    Cardinality({k \in DOMAIN pairs : pairs[k].op.type = type})

\* the variants of op the table gives the action beyond StoreRecord and
\* RegisterAgentActivity
ExtraOpTypes(action) ==
    IF action.type = "Create" THEN {"StoreEntry"}
    ELSE IF action.type = "Update" THEN {"StoreEntry", "RegisterUpdate"}
    ELSE IF action.type = "Delete" THEN {"RegisterDelete"}
    ELSE IF action.type = "CreateLink" THEN {"RegisterCreateLink"}
    ELSE IF action.type = "DeleteLink" THEN {"RegisterDeleteLink"}
    ELSE {}

\* the pairs as a multiset: how often each pair occurs
PairBag(pairs) ==
    [x \in {pairs[k] : k \in DOMAIN pairs} |-> Cardinality({k \in DOMAIN pairs : pairs[k] = x})]

TicksPerQuantum == 2

\* the origin time is five time quanta before the start
OriginQuantaAgo == 5

\* the cutoff duration is 2 quanta
CutoffQuanta == 2

\* how many ticks the clock may advance after the start: up to the last tick of
\* the quantum it started in
MaxElapsed == TicksPerQuantum - 1

\* how many ops the database holds
MaxOps == 2

\* how many of them may be not integrated
MaxPendingOps == 1

\* ArqSet::full_std(): the chunks of the full arc
Locations == {0, 1}

\* Topology.time_cutoff, in ticks
time_cutoff == CutoffQuanta * TicksPerQuantum

\* the time quantum a timestamp lies in
TimeQuantumOf(timestamp) == timestamp \div TicksPerQuantum

\* the mutant of HistoricalQuanta: the quantum that holds now - cutoff is left out
HistoricalQuantaBeforeCutoff(now) == TimeQuantumOf(now - time_cutoff)

\* how many time quanta from the origin on historical gossip covers: with a cutoff
\* of 2 quanta it "goes up to 1 quantum ago", that is up to the end of the quantum
\* that holds now - cutoff
HistoricalQuanta(now) == TimeQuantumOf(now - time_cutoff) + 1

RECURSIVE Log2(_)
Log2(n) == IF n < 2 THEN 0 ELSE 1 + Log2(n \div 2)

\* the segments of 2^p quanta and shorter that follow quantum start: one of each
\* length, and a second one where the bit of that length is set in n
RECURSIVE SegmentsFrom(_, _, _)
SegmentsFrom(n, p, start) ==
    IF p < 0 THEN <<>>
    ELSE IF (n \div (2 ^ p)) % 2 = 1
    THEN <<[start |-> start, len |-> 2 ^ p], [start |-> start + 2 ^ p, len |-> 2 ^ p]>>
            \o SegmentsFrom(n, p - 1, start + 2 * (2 ^ p))
    ELSE <<[start |-> start, len |-> 2 ^ p]>> \o SegmentsFrom(n, p - 1, start + 2 ^ p)

\* the mutant of TimeSegments: the newest segment is missing
TimeSegmentsWithoutNewest(t) ==
    IF t = 0 THEN <<>>
    ELSE SubSeq(SegmentsFrom(t + 1, Log2(t + 1) - 1, 0), 1,
                Len(SegmentsFrom(t + 1, Log2(t + 1) - 1, 0)) - 1)

\* the time segments of the tree over the quanta 0 .. t-1, the long ones first
TimeSegments(t) ==
    IF t = 0 THEN <<>> ELSE SegmentsFrom(t + 1, Log2(t + 1) - 1, 0)

\* the coordinates of the leaves of the tree over space x historical time
RegionCoords(now) ==
    {[space |-> x, time |-> TimeSegments(HistoricalQuanta(now))[k]] :
        x \in Locations, k \in DOMAIN TimeSegments(HistoricalQuanta(now))}

\* RegionCoords::to_bounds: the locations and the timestamps of a region, both ends
\* included
to_bounds(coords) ==
    [x |-> <<coords.space, coords.space>>,
     t |-> <<coords.time.start * TicksPerQuantum,
             (coords.time.start + coords.time.len) * TicksPerQuantum - 1>>]

\* the hashes of the integrated ops of the table inside the bounds
OpsInBounds(ops, bounds) ==
    {h \in DOMAIN ops :
        /\ ops[h].when_integrated # "NULL"
        /\ bounds.x[1] <= ops[h].loc /\ ops[h].loc <= bounds.x[2]
        /\ bounds.t[1] <= ops[h].timestamp /\ ops[h].timestamp <= bounds.t[2]}

\* RegionData of no op
RegionDataZero == [count |-> 0, size |-> 0, hash |-> 0]

\* the mutant of RegionDataAdd: the hash of the left operand is kept
RegionDataAddLeftHash(a, b) ==
    [count |-> a.count + b.count, size |-> a.size + b.size, hash |-> a.hash]

\* RegionData + RegionData: counts and sizes add, hashes xor
RegionDataAdd(a, b) ==
    [count |-> a.count + b.count, size |-> a.size + b.size, hash |-> XorByte(a.hash, b.hash)]

\* the RegionData of the ops with the hashes in S
RECURSIVE RegionDataOf(_, _)
RegionDataOf(ops, S) ==
    IF S = {} THEN RegionDataZero
    ELSE RegionDataAdd([count |-> 1, size |-> ops[CHOOSE h \in S : TRUE].size,
                        hash |-> CHOOSE h \in S : TRUE],
                       RegionDataOf(ops, S \ {CHOOSE h \in S : TRUE}))

\* query_region_set: the leaves over the full arc and historical time, each with the
\* data of the integrated ops in its bounds
query_region_set(ops, now) ==
    {[coords |-> c, data |-> RegionDataOf(ops, OpsInBounds(ops, to_bounds(c)))] :
        c \in RegionCoords(now)}

\* handle_fetch_op_data_by_regions: per op hash how often the queries of the bounds
\* return it
handle_fetch_op_data_by_regions(ops, bounds) ==
    [h \in DOMAIN ops |-> Cardinality({b \in bounds : h \in OpsInBounds(ops, b)})]

InitRegion ==
    /\ rOps = <<>>
    /\ rNow = OriginQuantaAgo * TicksPerQuantum
    /\ rPc = "idle"
    /\ rQueriedAt = 0
    /\ rRegionSet = {}
    /\ rFetched = <<>>
    /\ IdleHash /\ IdleQuery /\ IdleDerive /\ IdleBootstrap /\ IdleStrat /\ IdleActor /\ IdleValidation /\ IdleNetwork /\ IdleResize /\ IdleView /\ IdleCas

\* fill_db: an op with a timestamp up to now reaches the database. An op's hash
\* is its position in rOps, an opaque label, so only one labelling of each
\* collection of ops is kept: the one in timestamp order
FillDbOp(loc, timestamp, when_integrated) ==
    /\ rPc = "idle"
    /\ Len(rOps) < MaxOps
    /\ timestamp <= rNow
    /\ rOps # <<>> => rOps[Len(rOps)].timestamp <= timestamp
    /\ rOps' = Append(rOps, [loc |-> loc, timestamp |-> timestamp, size |-> loc + 1,
                             when_integrated |-> when_integrated])
    /\ Cardinality({h \in DOMAIN rOps' : rOps'[h].when_integrated = "NULL"}) <= MaxPendingOps
    /\ UNCHANGED <<notRegionVars, rNow, rPc, rQueriedAt, rRegionSet, rFetched>>

\* the clock advances
Tick ==
    /\ rNow < OriginQuantaAgo * TicksPerQuantum + MaxElapsed
    /\ rNow' = rNow + 1
    /\ UNCHANGED <<notRegionVars, rOps, rPc, rQueriedAt, rRegionSet, rFetched>>

\* query_region_set(db, topo, strat, ArqSet::full_std())
QueryRegionSet ==
    /\ rPc = "idle"
    /\ rRegionSet' = query_region_set(rOps, rNow)
    /\ rQueriedAt' = rNow
    /\ rPc' = "queried"
    /\ UNCHANGED <<notRegionVars, rOps, rNow, rFetched>>

\* handle_fetch_op_data_by_regions with the bounds of all regions of the region set
FetchOpData ==
    /\ rPc = "queried"
    /\ rFetched' = handle_fetch_op_data_by_regions(rOps, {to_bounds(r.coords) : r \in rRegionSet})
    /\ rPc' = "fetched"
    /\ UNCHANGED <<notRegionVars, rOps, rNow, rQueriedAt, rRegionSet>>

\* the results are dropped
DropRegions ==
    /\ rPc = "fetched"
    /\ rPc' = "idle"
    /\ rQueriedAt' = 0
    /\ rRegionSet' = {}
    /\ rFetched' = <<>>
    /\ UNCHANGED <<notRegionVars, rOps, rNow>>

NextRegion ==
    \/ \E loc \in Locations, timestamp \in 0..(OriginQuantaAgo * TicksPerQuantum + MaxElapsed),
          when_integrated \in {"set", "NULL"} :
            FillDbOp(loc, timestamp, when_integrated)
    \/ Tick
    \/ QueryRegionSet
    \/ FetchOpData
    \/ DropRegions

SpecRegion == InitRegion /\ [][NextRegion]_vars

(***************************************************************************)
(* Properties of the region queries                                        *)
(***************************************************************************)

\* the hashes of the integrated ops of the database
IntegratedOps == {h \in DOMAIN rOps : rOps[h].when_integrated # "NULL"}

\* the sum of the data of the regions in R
RECURSIVE RegionSum(_)
RegionSum(R) ==
    IF R = {} THEN RegionDataZero
    ELSE RegionDataAdd((CHOOSE r \in R : TRUE).data, RegionSum(R \ {CHOOSE r \in R : TRUE}))

\* the exclusive or of the hashes in S
RECURSIVE XorOfHashes(_)
XorOfHashes(S) ==
    IF S = {} THEN 0
    ELSE XorByte(CHOOSE h \in S : TRUE, XorOfHashes(S \ {CHOOSE h \in S : TRUE}))

\* the sum of the sizes of the ops with the hashes in S
RECURSIVE SizeOfOps(_)
SizeOfOps(S) ==
    IF S = {} THEN 0
    ELSE rOps[CHOOSE h \in S : TRUE].size + SizeOfOps(S \ {CHOOSE h \in S : TRUE})

\* every integrated op has a timestamp in the first 4 of the 5 quanta between the
\* origin time and the start
AllInHistoricalWindow ==
    \A h \in IntegratedOps : rOps[h].timestamp < (OriginQuantaAgo - 1) * TicksPerQuantum

\* C9: when all integrated ops S have timestamps in [origin, origin + 4 quanta), the
\* counts of the regions of the full arc sum to |S| (0 for an empty database), and
\* fetching by the bounds of all regions returns the op hashes of S, each once.
C9_RegionCoverage ==
    (rPc \in {"queried", "fetched"} /\ AllInHistoricalWindow) =>
        /\ RegionSum(rRegionSet).count = Cardinality(IntegratedOps)
        /\ rPc = "fetched" =>
              \A h \in DOMAIN rOps : rFetched[h] = IF h \in IntegratedOps THEN 1 ELSE 0

\* C9 witness: an op of the first quantum and an op of the quantum that holds
\* now - cutoff were counted and fetched
C9_Witness ==
    /\ rPc = "fetched" /\ AllInHistoricalWindow
    /\ Cardinality(IntegratedOps) >= 2
    /\ \E h \in IntegratedOps : rOps[h].timestamp >= rQueriedAt - time_cutoff
    /\ \E h \in IntegratedOps : rOps[h].timestamp < TicksPerQuantum
    /\ RegionSum(rRegionSet).count = Cardinality(IntegratedOps)

\* the region set and the fetched ops hold exactly the integrated ops with the hashes
\* in S and nothing of the integrated ops with the hashes in R
HoldsExactly(S, R) ==
    /\ \A h \in R : \A r \in rRegionSet : h \notin OpsInBounds(rOps, to_bounds(r.coords))
    /\ \A h \in R : rFetched[h] = 0
    /\ RegionSum(rRegionSet) =
          [count |-> Cardinality(S), size |-> SizeOfOps(S), hash |-> XorOfHashes(S)]

\* C10 as stated: an integrated op with timestamp >= now - recent_cutoff is in no
\* region's count, size or hash and is not fetched, and the summed data is that of
\* the older ops.
C10_RecentExcluded ==
    rPc = "fetched" =>
        HoldsExactly({h \in IntegratedOps : rOps[h].timestamp < rQueriedAt - time_cutoff},
                     {h \in IntegratedOps : rOps[h].timestamp >= rQueriedAt - time_cutoff})

\* the first timestamp behind the time quantum that holds now - recent_cutoff
CutoffQuantumEnd == (TimeQuantumOf(rQueriedAt - time_cutoff) + 1) * TicksPerQuantum

\* C10 amended: an integrated op with a timestamp at or after the end of the time
\* quantum that holds now - recent_cutoff is in no region's count, size or hash and
\* is not fetched, and the summed data is that of the ops before that end.
C10_RecentExcludedFromQuantumEnd ==
    rPc = "fetched" =>
        HoldsExactly({h \in IntegratedOps : rOps[h].timestamp < CutoffQuantumEnd},
                     {h \in IntegratedOps : rOps[h].timestamp >= CutoffQuantumEnd})

\* C10 witness: an op of the last quantum before now was left out, and an op younger
\* than the cutoff was counted
C10_Witness ==
    /\ rPc = "fetched"
    /\ \E h \in IntegratedOps :
          rOps[h].timestamp >= (OriginQuantaAgo - 1) * TicksPerQuantum /\ rFetched[h] = 0
    /\ \E h \in IntegratedOps :
          rOps[h].timestamp >= rQueriedAt - time_cutoff /\ rFetched[h] = 1
    /\ RegionSum(rRegionSet).count = 1

\* the results of summing the RegionData p[2] of the pairs p in P (p[1] tells
\* equal data of different regions or ops apart), one for each order in which they
\* can be added
RECURSIVE SumsInAnyOrder(_)
SumsInAnyOrder(P) ==
    IF P = {} THEN {RegionDataZero}
    ELSE UNION {{RegionDataAdd(p[2], s) : s \in SumsInAnyOrder(P \ {p})} : p \in P}

\* the bounds of the region over the locations x1..x2 and the time segments from
\* si to sj of the tree
SpanBounds(x1, x2, si, sj) ==
    [x |-> <<x1, x2>>,
     t |-> <<to_bounds([space |-> x1, time |-> si]).t[1],
             to_bounds([space |-> x2, time |-> sj]).t[2]>>]

\* the data of the region with these bounds
RegionDataIn(bounds) == RegionDataOf(rOps, OpsInBounds(rOps, bounds))

\* the data of the region with the bounds whole is the sum of the data of its
\* children with the bounds in parts, in whatever order they are added
SumOfParts(whole, parts) ==
    SumsInAnyOrder({<<b, RegionDataIn(b)>> : b \in parts}) = {RegionDataIn(whole)}

\* the region over x1..x2 and the segments si..sj out of segs is the sum of its
\* children, split along time or along space, and the sum of the data of its ops,
\* in whatever order they are added; a region of one location and one segment is a
\* leaf of the region set with this data
AdditiveOver(segs, x1, x2, si, sj) ==
    /\ SumOfParts(SpanBounds(x1, x2, si, sj),
                  {SpanBounds(x1, x2, s, s) : s \in {s \in segs : si.start <= s.start /\ s.start <= sj.start}})
    /\ SumOfParts(SpanBounds(x1, x2, si, sj), {SpanBounds(x, x, si, sj) : x \in x1..x2})
    /\ SumsInAnyOrder({<<h, [count |-> 1, size |-> rOps[h].size, hash |-> h]>> :
                            h \in OpsInBounds(rOps, SpanBounds(x1, x2, si, sj))})
          = {RegionDataIn(SpanBounds(x1, x2, si, sj))}
    /\ (x1 = x2 /\ si = sj) =>
          [coords |-> [space |-> x1, time |-> si], data |-> RegionDataIn(SpanBounds(x1, x2, si, sj))]
              \in rRegionSet

\* the region queries at the start time: the clock stands still
NextRegionAtStart ==
    \/ \E loc \in Locations, timestamp \in 0..(OriginQuantaAgo * TicksPerQuantum),
          when_integrated \in {"set", "NULL"} :
            FillDbOp(loc, timestamp, when_integrated)
    \/ QueryRegionSet
    \/ FetchOpData
    \/ DropRegions

SpecRegionAtStart == InitRegion /\ [][NextRegionAtStart]_vars

\* C11: the data of every region made of leaves of the region set (a span of
\* locations times a span of time segments) equals the sum of the data of the
\* child regions that partition it, counts and sizes added and hashes combined by
\* xor, and the sum is the same in every order of the children and of the ops.
C11_RegionAdditivity ==
    rPc = "queried" =>
        \A segs \in {{r.coords.time : r \in rRegionSet}} :
            \A x1 \in Locations, x2 \in Locations, si \in segs, sj \in segs :
                (x1 <= x2 /\ si.start <= sj.start) => AdditiveOver(segs, x1, x2, si, sj)

\* C11 witness: a region set was queried in which two leaves hold an op each, so
\* that the region over both has a count of 2 and the xor of both hashes
C11_Witness ==
    /\ rPc = "queried"
    /\ \E r1 \in rRegionSet, r2 \in rRegionSet :
          /\ r1 # r2 /\ r1.data.count = 1 /\ r2.data.count = 1
          /\ r1.data.hash # r2.data.hash
          /\ RegionSum(rRegionSet).hash = XorByte(r1.data.hash, r2.data.hash)
          /\ RegionSum(rRegionSet).count = 2

(***************************************************************************)
(* The put route of the bootstrap service, put.rs.  A request body is      *)
(* either the msgpack encoding of an AgentInfoSigned or bytes that do not  *)
(* decode; of a signature only its length matters to the code.             *)
(***************************************************************************)

\* how many requests reach the service
MaxPuts == 3

\* the values of the system clock, in milliseconds
ClockMs == {1, 2}

KitsuneSpaces == {1, 2}

KitsuneAgents == {1}

\* the lengths of the signatures sent
SignatureLens == {63, 64}

\* the AgentInfoSigned values sent: expires_at_ms is before, at or after the clock
AgentInfos ==
    [space : KitsuneSpaces, agent : KitsuneAgents, signature_len : SignatureLens,
     expires_at_ms : ClockMs \cup {3}]

\* rmp_encode: the msgpack bytes of a value
rmp_encode(value) == <<"msgpack", value>>

\* the request bodies sent: encoded infos, and bytes that are no msgpack of an info
Bodies == {rmp_encode(info) : info \in AgentInfos} \cup {<<"garbage">>}

\* rmp_decode to AgentInfoSigned
rmp_decode(bytes) ==
    IF bytes[1] = "msgpack" THEN Ok(bytes[2]) ELSE Err("BadDecode")

\* the mutant of valid: an info that expires now is still valid
valid_until_now(peer, now_ms) ==
    IF peer.signature_len # 64 THEN FALSE ELSE peer.expires_at_ms >= now_ms

\* valid: the signature has 64 bytes and the info expires after now
valid(peer, now_ms) ==
    IF peer.signature_len # 64 THEN FALSE ELSE peer.expires_at_ms > now_ms

\* Store::put: the info replaces what the store holds for its space and agent
store_put(store, peer) ==
    [p \in DOMAIN store \cup {<<peer.space, peer.agent>>} |->
        IF p = <<peer.space, peer.agent>> THEN peer ELSE store[p]]

\* the reply to a request that was not rejected: a status with a body
Reply(status, body) == [status |-> status, body |-> body]

\* the mutant of put_info: the counter is advanced before the info is looked at
put_info_counting_all(peer, store, counter, now_ms) ==
    IF rmp_decode(peer).tag # "Ok"
    THEN [store |-> store, counter |-> counter + 1, reply |-> Err("BadDecode")]
    ELSE IF ~valid(rmp_decode(peer).val, now_ms)
    THEN [store |-> store, counter |-> counter + 1, reply |-> Err("Invalid")]
    ELSE [store |-> store_put(store, rmp_decode(peer).val), counter |-> counter + 1,
          reply |-> Ok(Reply(200, rmp_encode(<<>>)))]

\* put_info: what becomes of the store and of PUT, and the reply
put_info(peer, store, counter, now_ms) ==
    IF rmp_decode(peer).tag # "Ok"
    THEN [store |-> store, counter |-> counter, reply |-> Err("BadDecode")]
    ELSE IF ~valid(rmp_decode(peer).val, now_ms)
    THEN [store |-> store, counter |-> counter, reply |-> Err("Invalid")]
    ELSE [store |-> store_put(store, rmp_decode(peer).val), counter |-> counter + 1,
          reply |-> Ok(Reply(200, rmp_encode(<<>>)))]

\* the filter put: a POST with header X-Op: put is handed to put_info, another
\* request is not for this route
put(x_op, body, store, counter, now_ms) ==
    IF x_op # "put"
    THEN [store |-> store, counter |-> counter, reply |-> Err("no route")]
    ELSE put_info(body, store, counter, now_ms)

\* Store::new(vec![]) and PUT = 0
InitBootstrap ==
    /\ bStore = <<>>
    /\ bPUT = 0
    /\ bNowMs \in ClockMs
    /\ bLog = <<>>
    /\ IdleHash /\ IdleQuery /\ IdleDerive /\ IdleRegion /\ IdleStrat /\ IdleActor /\ IdleValidation /\ IdleNetwork /\ IdleResize /\ IdleView /\ IdleCas

\* a request is answered
Request(x_op, body) ==
    /\ Len(bLog) < MaxPuts
    /\ bStore' = put(x_op, body, bStore, bPUT, bNowMs).store
    /\ bPUT' = put(x_op, body, bStore, bPUT, bNowMs).counter
    /\ bLog' = Append(bLog, [x_op |-> x_op, body |-> body, now_ms |-> bNowMs,
                             reply |-> put(x_op, body, bStore, bPUT, bNowMs).reply])
    /\ UNCHANGED <<notBootstrapVars, bNowMs>>

\* the system clock advances
TickMs ==
    /\ bNowMs + 1 \in ClockMs
    /\ bNowMs' = bNowMs + 1
    /\ UNCHANGED <<notBootstrapVars, bStore, bPUT, bLog>>

NextBootstrap ==
    \/ \E x_op \in {"put", "random"}, body \in Bodies : Request(x_op, body)
    \/ TickMs

SpecBootstrap == InitBootstrap /\ [][NextBootstrap]_vars

(***************************************************************************)
(* Properties of the put route                                             *)
(***************************************************************************)

\* the requests of the log that carried an AgentInfoSigned to put_info
PutsOfInfo == {k \in DOMAIN bLog : bLog[k].x_op = "put" /\ bLog[k].body[1] = "msgpack"}

\* the requests of the log that were accepted
Accepted == {k \in DOMAIN bLog : bLog[k].reply.tag = "Ok"}

\* C12: a put of an AgentInfoSigned is accepted if and only if its signature has
\* exactly 64 bytes and its expires_at_ms is greater than the clock in
\* milliseconds; a 63-byte signature, expires_at_ms = now - 1 and expires_at_ms =
\* now are rejected.
C12_PutValidity ==
    \A k \in PutsOfInfo :
        k \in Accepted <=> /\ bLog[k].body[2].signature_len = 64
                           /\ bLog[k].body[2].expires_at_ms > bLog[k].now_ms

\* C12 witness: of three infos put at the same clock, the one that expires a
\* millisecond later was accepted, the one that expires now was rejected and the one
\* with a 63-byte signature was rejected
C12_Witness ==
    /\ \E k \in PutsOfInfo \cap Accepted : bLog[k].body[2].expires_at_ms = bLog[k].now_ms + 1
    /\ \E k \in PutsOfInfo \ Accepted :
          bLog[k].body[2].signature_len = 63 /\ bLog[k].body[2].expires_at_ms > bLog[k].now_ms
    /\ \E k \in PutsOfInfo \ Accepted :
          bLog[k].body[2].signature_len = 64 /\ bLog[k].body[2].expires_at_ms = bLog[k].now_ms

\* the accepted requests for a space and an agent
AcceptedFor(space, agent) ==
    {k \in Accepted : bLog[k].body[2].space = space /\ bLog[k].body[2].agent = agent}

\* the largest number of a non-empty set of numbers
Latest(S) == CHOOSE k \in S : \A j \in S : j <= k

\* C13: the store holds, for each space and agent, the info of the latest accepted
\* put for them and nothing else, the PUT counter is the number of accepted puts,
\* and an accepted put was answered with status 200 and the msgpack of unit.
C13_StoreReflectsAccepted ==
    /\ DOMAIN bStore = {<<s, a>> \in KitsuneSpaces \X KitsuneAgents : AcceptedFor(s, a) # {}}
    /\ \A p \in DOMAIN bStore : bStore[p] = bLog[Latest(AcceptedFor(p[1], p[2]))].body[2]
    /\ bPUT = Cardinality(Accepted)
    /\ \A k \in Accepted : /\ bLog[k].reply = Ok(Reply(200, rmp_encode(<<>>)))
                           /\ bLog[k].x_op = "put" /\ bLog[k].body[1] = "msgpack"

\* C13 witness: two puts for the same space and agent were accepted, the second
\* with another info, a put for another space was accepted, and a request that
\* does not decode and an invalid one were rejected in between
C13_Witness ==
    /\ bPUT = 2
    /\ \E k \in Accepted, j \in Accepted :
          /\ k < j /\ AcceptedFor(bLog[k].body[2].space, bLog[k].body[2].agent) = {k, j}
          /\ bLog[k].body[2] # bLog[j].body[2]
          /\ bStore[<<bLog[j].body[2].space, bLog[j].body[2].agent>>] = bLog[j].body[2]
    /\ \E k \in DOMAIN bLog : bLog[k].reply = Err("Invalid")

(***************************************************************************)
(* The derived values of ArqStrat, strat.rs.  A u32 or an integral f64 is  *)
(* a pair <<hi, lo>> that stands for hi * 2^16 + lo, so that a u32 keeps   *)
(* its 32 bits; an f64 that is no integer is an exact fraction.  The       *)
(* buffers taken are those for which f64 arithmetic cannot move a result   *)
(* across an integer: powers of 1/2, where it is exact, and thousandths    *)
(* whose exact quotients and products are no integers.                     *)
(***************************************************************************)

\* the smallest buffer taken is 1 / 2^MaxHalvings
MaxHalvings == 33

DEFAULT_MIN_PEERS == 50

WideOf(n) == <<n \div 65536, n % 65536>>

WideAdd(a, b) == <<a[1] + b[1] + ((a[2] + b[2]) \div 65536), (a[2] + b[2]) % 65536>>

\* a / d rounded down, for a divisor below 2^15
WideDiv(a, d) == <<a[1] \div d, ((a[1] % d) * 65536 + a[2]) \div d>>

WideLeq(a, b) == IF a[1] = b[1] THEN a[2] <= b[2] ELSE a[1] < b[1]

\* u32::MAX
U32_MAX == <<65535, 65535>>

\* the buffers: num / den with den a pair
Buffers ==
    {[num |-> p, den |-> WideOf(1000)] : p \in {p \in 1..999 : 1000 % p # 0 /\ p % 20 # 0}}
        \cup {[num |-> 1, den |-> IF k < 16 THEN <<0, 2 ^ k>> ELSE <<2 ^ (k - 16), 0>>] :
                k \in 1..MaxHalvings}

\* LocalStorageConfig::default()
LocalStorageDefault == [arc_clamping |-> None]

\* ArqStrat::standard: min_coverage and buffer = 0.143
standard(local_storage) ==
    [min_coverage |-> DEFAULT_MIN_PEERS, buffer |-> [num |-> 143, den |-> WideOf(1000)],
     local_storage |-> local_storage]

\* max_coverage: (min_coverage * (buffer + 1.0)).ceil(), that is min_coverage plus
\* min_coverage * num / den rounded up; the product min_coverage * num is below 2^16
max_coverage(strat) ==
    IF strat.buffer.den[1] > 0 THEN strat.min_coverage + 1
    ELSE strat.min_coverage
            + (strat.min_coverage * strat.buffer.num + strat.buffer.den[2] - 1) \div strat.buffer.den[2]

\* chunk_count_threshold: (buffer + 1.0) / buffer as the fraction (num + den) / num
chunk_count_threshold(strat) ==
    [num |-> WideAdd(strat.buffer.den, WideOf(strat.buffer.num)), den |-> strat.buffer.num]

\* f64::ceil of a fraction
ceil(x) == WideDiv(WideAdd(x.num, WideOf(x.den - 1)), x.den)

\* f64::floor of a fraction, for the mutant of min_chunks
floor(x) == WideDiv(x.num, x.den)

\* f64 as u32: a value above u32::MAX becomes u32::MAX
as_u32(x) == IF x[1] > 65535 THEN U32_MAX ELSE x

\* the mutant of min_chunks: the threshold is rounded down
min_chunks_floor(strat) == as_u32(floor(chunk_count_threshold(strat)))

\* min_chunks
min_chunks(strat) == as_u32(ceil(chunk_count_threshold(strat)))

\* u32 * 2 and u32 - 1 as the build computes them: with overflow checks an overflow
\* panics, without them the result wraps
u32_double(x, overflow_checks) ==
    IF WideAdd(x, x)[1] > 65535 /\ overflow_checks THEN Panic
    ELSE Ok(<<WideAdd(x, x)[1] % 65536, WideAdd(x, x)[2]>>)

u32_minus_1(x, overflow_checks) ==
    IF x = <<0, 0>> THEN (IF overflow_checks THEN Panic ELSE Ok(U32_MAX))
    ELSE IF x[2] > 0 THEN Ok(<<x[1], x[2] - 1>>) ELSE Ok(<<x[1] - 1, 65535>>)

\* the mutant of max_chunks: twice min_chunks
max_chunks_even(strat, overflow_checks) == u32_double(min_chunks(strat), overflow_checks)

\* max_chunks: min_chunks() * 2 - 1, asserted to be odd
max_chunks(strat, overflow_checks) ==
    IF u32_double(min_chunks(strat), overflow_checks) = Panic THEN Panic
    ELSE IF u32_minus_1(u32_double(min_chunks(strat), overflow_checks).val, overflow_checks) = Panic
    THEN Panic
    ELSE IF u32_minus_1(u32_double(min_chunks(strat), overflow_checks).val, overflow_checks).val[2] % 2 # 1
    THEN Panic
    ELSE u32_minus_1(u32_double(min_chunks(strat), overflow_checks).val, overflow_checks)

\* max_chunks_log2: (max_chunks as f64).log2().floor() as u8, the place of the
\* highest bit of max_chunks
max_chunks_log2(strat, overflow_checks) ==
    IF max_chunks(strat, overflow_checks) = Panic THEN Panic
    ELSE IF max_chunks(strat, overflow_checks).val[1] > 0
    THEN Ok(16 + Log2(max_chunks(strat, overflow_checks).val[1]))
    ELSE Ok(Log2(max_chunks(strat, overflow_checks).val[2]))

\* a strategy is built: the standard one, or one with another buffer
InitStrat ==
    /\ sStrat \in {[standard(LocalStorageDefault) EXCEPT !.buffer = b] : b \in Buffers}
    /\ sChecks \in BOOLEAN
    /\ sFn = "none"
    /\ sResult = NoResult
    /\ IdleHash /\ IdleQuery /\ IdleDerive /\ IdleRegion /\ IdleBootstrap /\ IdleActor /\ IdleValidation /\ IdleNetwork /\ IdleResize /\ IdleView /\ IdleCas

\* a method of the strategy is called
CallStrat(fn) ==
    /\ sFn' = fn
    /\ sResult' = CASE fn = "min_chunks" -> Ok(min_chunks(sStrat))
                    [] fn = "max_chunks" -> max_chunks(sStrat, sChecks)
                    [] fn = "max_chunks_log2" -> max_chunks_log2(sStrat, sChecks)
                    [] fn = "max_coverage" -> Ok(max_coverage(sStrat))
    /\ UNCHANGED <<notStratVars, sStrat, sChecks>>

NextStrat ==
    \E fn \in {"min_chunks", "max_chunks", "max_chunks_log2", "max_coverage"} : CallStrat(fn)

SpecStrat == InitStrat /\ [][NextStrat]_vars

(***************************************************************************)
(* Properties of the derived values                                        *)
(***************************************************************************)

C15_ChunkBounds ==
    /\ sFn = "min_chunks" => sResult = Ok(ceil(chunk_count_threshold(sStrat)))
    /\ sFn = "max_chunks" =>
          /\ sResult # Panic
          /\ WideAdd(sResult.val, WideOf(1)) = WideAdd(min_chunks(sStrat), min_chunks(sStrat))
          /\ sResult.val[2] % 2 = 1
          /\ WideLeq(min_chunks(sStrat), sResult.val)

(***************************************************************************)
(* FetchContextExt and GetOptions, types/actor.rs                          *)
(***************************************************************************)

\* the largest FetchContext a caller starts with: the two flags and a bit that is
\* none of them
MaxContext == 7

FLAG_REQ_VAL_RCPT == 1

FLAG_CNTR_SSN == 2

\* a | b on u32
RECURSIVE BitOr(_, _)
BitOr(a, b) ==
    IF a = 0 THEN b
    ELSE IF b = 0 THEN a
    ELSE 2 * BitOr(a \div 2, b \div 2) + (IF a % 2 = 1 \/ b % 2 = 1 THEN 1 ELSE 0)

\* a & b on u32
RECURSIVE BitAnd(_, _)
BitAnd(a, b) ==
    IF a = 0 \/ b = 0 THEN 0
    ELSE 2 * BitAnd(a \div 2, b \div 2) + (IF a % 2 = 1 /\ b % 2 = 1 THEN 1 ELSE 0)

with_request_validation_receipt(self, request_validation_receipt) ==
    IF request_validation_receipt THEN BitOr(self, FLAG_REQ_VAL_RCPT) ELSE self

has_request_validation_receipt(self) == BitAnd(self, FLAG_REQ_VAL_RCPT) > 0

\* the mutant of with_countersigning_session: false clears the flag
with_countersigning_session_exact(self, countersigning_session) ==
    IF countersigning_session THEN BitOr(self, FLAG_CNTR_SSN)
    ELSE self - BitAnd(self, FLAG_CNTR_SSN)

with_countersigning_session(self, countersigning_session) ==
    IF countersigning_session THEN BitOr(self, FLAG_CNTR_SSN) ELSE self

has_countersigning_session(self) == BitAnd(self, FLAG_CNTR_SSN) > 0

\* GetOptions::default(); the default of GetRequest is not named in this file
GetOptions_default ==
    [remote_agent_count |-> None, timeout_ms |-> None, as_race |-> TRUE,
     race_timeout_ms |-> None, follow_redirects |-> TRUE,
     all_live_actions_with_metadata |-> FALSE, request_type |-> "GetRequest::default()"]

\* the mutant of must_get_options: the options follow redirects
must_get_options_following ==
    [remote_agent_count |-> None, timeout_ms |-> None, as_race |-> TRUE,
     race_timeout_ms |-> None, follow_redirects |-> TRUE,
     all_live_actions_with_metadata |-> FALSE, request_type |-> "GetRequest::Pending"]

\* GetOptions::must_get_options()
must_get_options ==
    [remote_agent_count |-> None, timeout_ms |-> None, as_race |-> TRUE,
     race_timeout_ms |-> None, follow_redirects |-> FALSE,
     all_live_actions_with_metadata |-> FALSE, request_type |-> "GetRequest::Pending"]

InitActor ==
    /\ aCtxInit \in 0..MaxContext
    /\ aCtx = aCtxInit
    /\ aCtxPrev = aCtxInit
    /\ aCall = <<>>
    /\ aSet = {}
    /\ aRequests = {}
    /\ IdleHash /\ IdleQuery /\ IdleDerive /\ IdleRegion /\ IdleBootstrap /\ IdleStrat /\ IdleValidation /\ IdleNetwork /\ IdleResize /\ IdleView /\ IdleCas

WithRequestValidationReceipt(param) ==
    /\ aCtx' = with_request_validation_receipt(aCtx, param)
    /\ aCtxPrev' = aCtx
    /\ aCall' = <<"with_request_validation_receipt", param>>
    /\ aSet' = IF param THEN aSet \cup {"with_request_validation_receipt"} ELSE aSet
    /\ UNCHANGED <<notActorVars, aCtxInit, aRequests>>

WithCountersigningSession(param) ==
    /\ aCtx' = with_countersigning_session(aCtx, param)
    /\ aCtxPrev' = aCtx
    /\ aCall' = <<"with_countersigning_session", param>>
    /\ aSet' = IF param THEN aSet \cup {"with_countersigning_session"} ELSE aSet
    /\ UNCHANGED <<notActorVars, aCtxInit, aRequests>>

\* a get is issued with the default options, or with options converted from the
\* zome's GetOptions, which are the default as well
Get ==
    /\ aRequests' = aRequests \cup {<<"get", GetOptions_default>>}
    /\ UNCHANGED <<notActorVars, aCtx, aCtxInit, aCtxPrev, aCall, aSet>>

\* a must-get is issued: its options are must_get_options()
MustGet ==
    /\ aRequests' = aRequests \cup {<<"must_get", must_get_options>>}
    /\ UNCHANGED <<notActorVars, aCtx, aCtxInit, aCtxPrev, aCall, aSet>>

NextActor ==
    \/ \E param \in BOOLEAN : WithRequestValidationReceipt(param)
    \/ \E param \in BOOLEAN : WithCountersigningSession(param)
    \/ Get
    \/ MustGet

SpecActor == InitActor /\ [][NextActor]_vars

(***************************************************************************)
(* Properties of the options and of the fetch context                      *)
(***************************************************************************)

\* C16: must_get_options() has follow_redirects = false and request_type =
\* GetRequest::Pending, default() has follow_redirects = true, and no must-get
\* request is issued with follow_redirects = true.
C16_MustGetPinned ==
    /\ must_get_options.follow_redirects = FALSE
    /\ must_get_options.request_type = "GetRequest::Pending"
    /\ GetOptions_default.follow_redirects = TRUE
    /\ \A r \in aRequests :
          r[1] = "must_get" =>
              r[2].follow_redirects = FALSE /\ r[2].request_type = "GetRequest::Pending"

\* C16 witness: a must-get and a get were issued, the get follows redirects
C16_Witness ==
    /\ \E r \in aRequests : r[1] = "must_get" /\ ~r[2].follow_redirects
    /\ \E r \in aRequests : r[1] = "get" /\ r[2].follow_redirects

\* C17: a call with true sets its own flag, a call with false returns the context
\* unchanged, neither changes the other flag, and so each flag is set exactly when
\* the initial context had it or its method was called with true.
C17_FlagsSetOnly ==
    /\ has_request_validation_receipt(aCtx) <=>
          (has_request_validation_receipt(aCtxInit) \/ "with_request_validation_receipt" \in aSet)
    /\ has_countersigning_session(aCtx) <=>
          (has_countersigning_session(aCtxInit) \/ "with_countersigning_session" \in aSet)
    /\ IF aCall = <<>> THEN aCtx = aCtxInit
       ELSE /\ ~aCall[2] => aCtx = aCtxPrev
            /\ aCall = <<"with_request_validation_receipt", TRUE>> =>
                  /\ has_request_validation_receipt(aCtx)
                  /\ has_countersigning_session(aCtx) <=> has_countersigning_session(aCtxPrev)
            /\ aCall = <<"with_countersigning_session", TRUE>> =>
                  /\ has_countersigning_session(aCtx)
                  /\ has_request_validation_receipt(aCtx) <=> has_request_validation_receipt(aCtxPrev)

\* C17 witness: a context without flags got the validation receipt flag, and a call
\* of with_countersigning_session(false) after one with true left both flags set
C17_Witness ==
    /\ aCtxInit = 0
    /\ aSet = {"with_request_validation_receipt", "with_countersigning_session"}
    /\ aCall = <<"with_countersigning_session", FALSE>>
    /\ has_request_validation_receipt(aCtx) /\ has_countersigning_session(aCtx)
    /\ aCtx = aCtxPrev

(***************************************************************************)
(* The validation pipeline: sys validation, app validation, integration    *)
(***************************************************************************)

\* the ops a run receives: op o > 1 refers to op o - 1
MaxValidationOps == 3

ValidationOps == 1..MaxValidationOps

Workers == {"sys", "app", "integration"}

\* the op that o depends on, 0 for none
DependencyOf(o) == o - 1

\* the dependency of o is not integrated here: o is parked
Parked(status, o) == DependencyOf(o) # 0 /\ status[DependencyOf(o)] # "Integrated"

\* the state a worker takes its ops from
QueueOf(worker) ==
    CASE worker = "sys" -> "Pending"
      [] worker = "app" -> "SysValidated"
      [] worker = "integration" -> "AppValidated"

\* the mutant of receive_op: an op received again is validated again
receive_op_again(status, o) == [status EXCEPT ![o] = "Pending"]

\* an op that arrives by publish or gossip is persisted as Pending; one that is
\* already held is left as it is
receive_op(status, o) ==
    IF status[o] = "Absent" THEN [status EXCEPT ![o] = "Pending"] ELSE status

InitValidation ==
    /\ vStatus = [o \in ValidationOps |-> "Absent"]
    /\ vAwake = {}
    /\ IdleHash /\ IdleQuery /\ IdleDerive /\ IdleRegion /\ IdleBootstrap /\ IdleStrat /\ IdleActor /\ IdleNetwork /\ IdleResize /\ IdleView /\ IdleCas

Receive(o) ==
    /\ vStatus' = receive_op(vStatus, o)
    /\ vAwake' = vAwake \cup {"sys"}
    /\ UNCHANGED notValidationVars

\* sys validation of one op of the queue
SysValidate(o, outcome) ==
    /\ "sys" \in vAwake
    /\ vStatus[o] = "Pending"
    /\ IF outcome = "MissingDependency" THEN Parked(vStatus, o) ELSE TRUE
    /\ vStatus' = CASE outcome = "Valid" -> [vStatus EXCEPT ![o] = "SysValidated"]
                    [] outcome = "Invalid" -> [vStatus EXCEPT ![o] = "Rejected"]
                    [] outcome = "MissingDependency" -> vStatus
    /\ vAwake' = IF outcome = "Valid" THEN vAwake \cup {"app"} ELSE vAwake
    /\ UNCHANGED notValidationVars

\* app validation of one op of the queue; a validated op triggers integration
AppValidate(o, outcome) ==
    /\ "app" \in vAwake
    /\ vStatus[o] = "SysValidated"
    /\ IF outcome = "UnresolvedDependency" THEN Parked(vStatus, o) ELSE TRUE
    /\ vStatus' = CASE outcome = "Valid" -> [vStatus EXCEPT ![o] = "AppValidated"]
                    [] outcome = "Invalid" -> [vStatus EXCEPT ![o] = "Rejected"]
                    [] outcome = "UnresolvedDependency" -> vStatus
    /\ vAwake' = IF outcome = "Valid" THEN vAwake \cup {"integration"} ELSE vAwake
    /\ UNCHANGED notValidationVars

\* integration of one op; the ops parked on it are triggered again
Integrate(o) ==
    /\ "integration" \in vAwake
    /\ vStatus[o] = "AppValidated"
    /\ vStatus' = [vStatus EXCEPT ![o] = "Integrated"]
    /\ vAwake' = vAwake \cup {"sys", "app"}
    /\ UNCHANGED notValidationVars

\* a worker sleeps when its queue is empty or holds parked ops only
Sleep(worker) ==
    /\ worker \in vAwake
    /\ \A o \in ValidationOps : vStatus[o] = QueueOf(worker) => Parked(vStatus, o)
    /\ vAwake' = vAwake \ {worker}
    /\ UNCHANGED <<notValidationVars, vStatus>>

NextValidation ==
    \/ \E o \in ValidationOps : Receive(o)
    \/ \E o \in ValidationOps, outcome \in {"Valid", "Invalid", "MissingDependency"} :
          SysValidate(o, outcome)
    \/ \E o \in ValidationOps, outcome \in {"Valid", "Invalid", "UnresolvedDependency"} :
          AppValidate(o, outcome)
    \/ \E o \in ValidationOps : Integrate(o)
    \/ \E worker \in Workers : Sleep(worker)

SpecValidation == InitValidation /\ [][NextValidation]_vars

(***************************************************************************)
(* Properties of the validation pipeline                                   *)
(***************************************************************************)

\* the place of a state on Pending -> SysValidated -> AppValidated -> Integrated
Progress(state) ==
    CASE state = "Absent" -> 0
      [] state = "Pending" -> 1
      [] state = "SysValidated" -> 2
      [] state = "AppValidated" -> 3
      [] state = "Integrated" -> 4
      [] state = "Rejected" -> 4

\* a step of an op: it stays, or it moves forward, and Integrated and Rejected
\* are left by no step
Forward(from, to) ==
    \/ from = to
    \/ /\ from \notin {"Integrated", "Rejected"}
       /\ Progress(to) > Progress(from)
       /\ to = "Integrated" => from = "AppValidated"

MaxRemoteAgents == 2

\* the longest timeout_ms of a request
MaxTimeoutMs == 2

BestEffortOps == {"get", "get_meta", "get_links", "get_agent_activity"}

\* the mutant of collect: a request nobody answered is a timeout error
collect_or_timeout(remote) ==
    IF \A a \in DOMAIN remote : remote[a] = "timed_out" THEN Err("Timeout")
    ELSE Ok({a \in DOMAIN remote : remote[a] = "responded"})

\* what the caller receives once no remote request is outstanding: the responses
\* that arrived in time, none of them if all requests timed out
collect(remote) == Ok({a \in DOMAIN remote : remote[a] = "responded"})

InitNetwork ==
    /\ nCall = <<>>
    /\ nRemote = <<>>
    /\ nElapsedMs = 0
    /\ nResult = <<>>
    /\ IdleHash /\ IdleQuery /\ IdleDerive /\ IdleRegion /\ IdleBootstrap /\ IdleStrat /\ IdleActor /\ IdleValidation /\ IdleResize /\ IdleView /\ IdleCas

\* the caller makes a request that is sent to remote_agent_count agents
CallRemote(op, remote_agent_count, timeout_ms) ==
    /\ nCall = <<>>
    /\ nCall' = [op |-> op, timeout_ms |-> timeout_ms]
    /\ nRemote' = [a \in 1..remote_agent_count |-> "waiting"]
    /\ nElapsedMs' = 0
    /\ nResult' = <<>>
    /\ UNCHANGED notNetworkVars

\* a remote agent answers in time
Respond(a) ==
    /\ nCall # <<>> /\ nResult = <<>>
    /\ a \in DOMAIN nRemote
    /\ IF a \in DOMAIN nRemote THEN nRemote[a] = "waiting" ELSE FALSE
    /\ nRemote' = [nRemote EXCEPT ![a] = "responded"]
    /\ UNCHANGED <<notNetworkVars, nCall, nElapsedMs, nResult>>

\* time passes; at timeout_ms the outstanding remote requests time out
ElapseMs ==
    /\ nCall # <<>> /\ nResult = <<>>
    /\ IF nCall # <<>> THEN nElapsedMs < nCall.timeout_ms ELSE FALSE
    /\ nElapsedMs' = nElapsedMs + 1
    /\ nRemote' = IF nElapsedMs + 1 >= nCall.timeout_ms
                  THEN [a \in DOMAIN nRemote |->
                           IF nRemote[a] = "waiting" THEN "timed_out" ELSE nRemote[a]]
                  ELSE nRemote
    /\ UNCHANGED <<notNetworkVars, nCall, nResult>>

\* no remote request is outstanding: the caller receives the result
ReturnResult ==
    /\ nCall # <<>> /\ nResult = <<>>
    /\ \A a \in DOMAIN nRemote : nRemote[a] # "waiting"
    /\ nResult' = collect(nRemote)
    /\ UNCHANGED <<notNetworkVars, nCall, nRemote, nElapsedMs>>

\* the caller is done with the result
Done ==
    /\ nResult # <<>>
    /\ nCall' = <<>> /\ nRemote' = <<>> /\ nElapsedMs' = 0 /\ nResult' = <<>>
    /\ UNCHANGED notNetworkVars

NextNetwork ==
    \/ \E op \in BestEffortOps, remote_agent_count \in 1..MaxRemoteAgents,
          timeout_ms \in 1..MaxTimeoutMs : CallRemote(op, remote_agent_count, timeout_ms)
    \/ \E a \in 1..MaxRemoteAgents : Respond(a)
    \/ ElapseMs
    \/ ReturnResult
    \/ Done

SpecNetwork == InitNetwork /\ [][NextNetwork]_vars

(***************************************************************************)
(* Properties of the network facade                                        *)
(***************************************************************************)

\* C19: for get, get_meta, get_links and get_agent_activity, when every remote
\* request timed out before timeout_ms the caller receives an empty result and
\* never a timeout error.
C19_BestEffortTimeouts ==
    nResult # <<>> =>
        /\ nResult.tag = "Ok"
        /\ (\A a \in DOMAIN nRemote : nRemote[a] = "timed_out") => nResult = Ok({})

\* C19 witness: both remote requests of a get_agent_activity timed out and the
\* caller received the empty result
C19_Witness ==
    /\ nCall # <<>> /\ nResult = Ok({})
    /\ IF nCall # <<>> THEN nCall.op = "get_agent_activity" ELSE FALSE
    /\ DOMAIN nRemote = 1..MaxRemoteAgents
    /\ \A a \in DOMAIN nRemote : nRemote[a] = "timed_out"

(***************************************************************************)
(* The resize loop of the local arq, with ArqClamping                      *)
(***************************************************************************)

\* the space dimension has 2^SpacePower chunks of power 0
SpacePower == 5

\* the peer views an update brings: few or many visible peers; coverage below
\* min_coverage, within the buffer, and above max_coverage
PeerViews ==
    {[num_visible_peers |-> n, coverage |-> c] : n \in {10, 60}, c \in {40, 55, 70}}

\* ArqClamping, as the arc_clamping of LocalStorageConfig
ArqClampings == {None, Some("Empty"), Some("Full")}

IsFull(arq) == arq.count * 2 ^ arq.power >= 2 ^ SpacePower

IsEmpty(arq) == arq.count = 0

\* the full arq of the coarsest power whose count is within max_chunks
FullArq(strat) ==
    CHOOSE arq \in {[power |-> p, count |-> 2 ^ (SpacePower - p)] : p \in 0..SpacePower} :
        /\ arq.count <= max_chunks(strat, TRUE).val[2]
        /\ arq.power = 0 \/ 2 * arq.count > max_chunks(strat, TRUE).val[2]

EmptyArq(strat) == [FullArq(strat) EXCEPT !.count = 0]

\* grow: one more chunk; beyond max_chunks the power is upshifted and the count halved
grow(arq, strat) ==
    IF IsFull(arq) THEN arq
    ELSE IF arq.count + 1 > max_chunks(strat, TRUE).val[2]
    THEN [power |-> arq.power + 1, count |-> (arq.count + 1) \div 2]
    ELSE [arq EXCEPT !.count = arq.count + 1]

\* shrink: one chunk less; below min_chunks the power is downshifted if it can be,
\* else the arq shrinks to empty
shrink(arq, strat) ==
    IF IsEmpty(arq) THEN arq
    ELSE IF arq.count - 1 >= min_chunks(strat)[2] THEN [arq EXCEPT !.count = arq.count - 1]
    ELSE IF arq.power > 0 THEN [power |-> arq.power - 1, count |-> 2 * (arq.count - 1)]
    ELSE [arq EXCEPT !.count = 0]

\* the mutant of resize: the clamping is not looked at
resize_unclamped(arq, strat, view) ==
    IF 4 * view.num_visible_peers < 3 * view.coverage THEN grow(arq, strat)
    ELSE IF view.coverage < strat.min_coverage THEN grow(arq, strat)
    ELSE IF view.coverage > max_coverage(strat) THEN shrink(arq, strat)
    ELSE arq

\* one run of the resize loop on a peer-view update; slacker_ratio is 0.75
resize(arq, strat, view) ==
    IF strat.local_storage.arc_clamping # None THEN arq
    ELSE IF 4 * view.num_visible_peers < 3 * view.coverage THEN grow(arq, strat)
    ELSE IF view.coverage < strat.min_coverage THEN grow(arq, strat)
    ELSE IF view.coverage > max_coverage(strat) THEN shrink(arq, strat)
    ELSE arq

\* an arq clamped to Empty starts empty, one clamped to Full starts full
InitResize ==
    /\ qStrat \in {standard([arc_clamping |-> c]) : c \in ArqClampings}
    /\ qArq \in {EmptyArq(qStrat), FullArq(qStrat)}
    /\ qStrat.local_storage.arc_clamping = Some("Empty") => IsEmpty(qArq)
    /\ qStrat.local_storage.arc_clamping = Some("Full") => IsFull(qArq)
    /\ qArqStart = qArq
    /\ qView = <<>>
    /\ IdleHash /\ IdleQuery /\ IdleDerive /\ IdleRegion /\ IdleBootstrap /\ IdleStrat /\ IdleActor /\ IdleValidation /\ IdleNetwork /\ IdleView /\ IdleCas

PeerViewUpdate(view) ==
    /\ qArq' = resize(qArq, qStrat, view)
    /\ qView' = view
    /\ UNCHANGED <<notResizeVars, qStrat, qArqStart>>

NextResize == \E view \in PeerViews : PeerViewUpdate(view)

SpecResize == InitResize /\ [][NextResize]_vars

(***************************************************************************)
(* Properties of the resize loop                                           *)
(***************************************************************************)

\* C20: with arc_clamping Empty the local arq stays empty and never grows, with
\* Full it stays full and never shrinks, for every sequence of peer-view updates;
\* the resize loop changes the arq with arc_clamping None only.
C20_ClampedArcsSkipResizing ==
    /\ qStrat.local_storage.arc_clamping = Some("Empty") => IsEmpty(qArq) /\ qArq = qArqStart
    /\ qStrat.local_storage.arc_clamping = Some("Full") => IsFull(qArq) /\ qArq = qArqStart
    /\ qArq # qArqStart => qStrat.local_storage.arc_clamping = None

\* C20 witness: an arq clamped to Full got a peer view that is over-covered, which
\* shrinks an arq that is not clamped, and is still full
C20_Witness ==
    /\ qStrat.local_storage.arc_clamping = Some("Full")
    /\ qView \in PeerViews
    /\ resize_unclamped(qArq, qStrat, qView) # qArq
    /\ IsFull(qArq)

(***************************************************************************)
(* The chunk counts of the standard strategy                               *)
(***************************************************************************)

FirstFailingCheck ==
    IF Len(hText) = 0 THEN "NoU"
    ELSE IF hText[1] # CharU THEN "NoU"
    ELSE IF ~Base64Decode(Tail(hText)).ok THEN "BadBase64"
    ELSE IF Len(TextBytes) # HOLO_HASH_FULL_LEN THEN "BadSize"
    ELSE IF SubSeq(TextBytes, 1, HOLO_HASH_PREFIX_LEN) # hPrefix THEN "BadPrefix"
    ELSE IF ~ChecksumValid(TextBytes) THEN "BadChecksum"
    ELSE "Ok"

\* C29 as stated: holo_hash_decode reports the first failing check in the order
\* leading character, base64 validity, length, prefix, checksum: every text that does
\* not start with 'u' yields NoU, and so on; no assertion fails on the way.
C29_DecodePrecedence ==
    (hPc = "done" /\ hFn = "decode") => hResult.tag = FirstFailingCheck

(***************************************************************************)
(* Further properties of the deterministic agent activity query            *)
(***************************************************************************)

\* the hashes of the rows of the answered query
RowHashes == {qRows[k].hash : k \in DOMAIN qRows}

\* the walk from hash h along prev_action through the hashes in S down to the hash
\* low (an Option), up to the first hash that is not in S
RECURSIVE WalkIn(_, _, _)
WalkIn(h, S, low) ==
    IF h \notin S THEN <<>>
    ELSE IF Some(h) = low THEN <<h>>
    ELSE IF qActions[h].prev_action = None THEN <<h>>
    ELSE <<h>> \o WalkIn(qActions[h].prev_action[1], S \ {h}, low)

\* the walk from range.high through the rows down to range.low
WalkFromHigh == WalkIn(qRange[2], RowHashes, qRange[1])

\* the walk from range.high meets a gap: it ends above the low end of the range, at
\* an action whose prev_action is not among the rows
MeetsGap ==
    /\ WalkFromHigh # <<>>
    /\ qActions[WalkFromHigh[Len(WalkFromHigh)]].prev_action # None
    /\ Some(WalkFromHigh[Len(WalkFromHigh)]) # qRange[1]

\* C22 as stated: a chain that is not empty starts with the action of hash range.high, every
\* further element is the prev_action of the one before it, and no hash occurs
\* twice; when an action on the way down from range.high is not among the integrated
\* rows the chain is the walk down to the action above the gap, and when range.high
\* is not among them the chain is empty.
C22_ContiguousFromHigh ==
    qPc = "answered" =>
        /\ qResponse # <<>> => qResponse[1].hash = qRange[2]
        /\ \A k \in DOMAIN qResponse :
              k > 1 => Some(qResponse[k].hash) = qResponse[k - 1].action.prev_action
        /\ \A k, l \in DOMAIN qResponse : qResponse[k].hash = qResponse[l].hash => k = l
        /\ qRange[2] \notin RowHashes => qResponse = <<>>
        /\ MeetsGap => [k \in DOMAIN qResponse |-> qResponse[k].hash] = WalkFromHigh

\* C23 as stated: every order of the rows that ORDER BY seq DESC allows folds to the
\* chain that was returned, whatever actions the store holds.
C23_OneResult ==
    qPc = "answered" =>
        \A order \in OrderBySeqDesc(qActions, SelectedHashes(qActions, qAgent, qRange)) :
            render(FoldRows(qRange, [k \in DOMAIN order |-> Item(qActions, order[k])],
                            Len(order))) = qResponse

\* C24: every returned action is one of the requested author with a
\* RegisterAgentActivity op that has a validation status and is integrated, and
\* its seq lies between that of range.low (when given) and that of range.high.
C24_IntegratedActivityOnly ==
    qPc = "answered" =>
        \A k \in DOMAIN qResponse :
            /\ qResponse[k].hash \in ActivityOf(qAgent)
            /\ qResponse[k].action = qActions[qResponse[k].hash]
            /\ qRange[2] \in DOMAIN qActions
            /\ qResponse[k].action.seq <= qActions[qRange[2]].seq
            /\ qRange[1] # None =>
                  /\ qRange[1][1] \in DOMAIN qActions
                  /\ qResponse[k].action.seq >= qActions[qRange[1][1]].seq

\* C24 witness: an action was returned while the store holds an action of the same
\* author whose op is not integrated and an action of another author
C24_Witness ==
    /\ qPc = "answered" /\ qResponse # <<>>
    /\ \E h \in DOMAIN qActions :
          qActions[h].author = qAgent /\ qActions[h].op \in UnintegratedOps
    /\ \E h \in DOMAIN qActions : qActions[h].author # qAgent

(***************************************************************************)
(* The authority with a store that holds any number of irregular actions   *)
(***************************************************************************)

\* fill_db of an action of the queried author whatever its prev_action and seq are:
\* the authority integrates rejected activity as well
FillDbAny(prev, seq, op) ==
    /\ qPc = "idle"
    /\ Len(qActions) < MaxActions
    /\ IF prev = None THEN TRUE ELSE prev[1] \in KnownHashes
    /\ qActions' = Append(qActions, [author |-> 1, seq |-> seq, prev_action |-> prev, op |-> op])
    /\ UNCHANGED <<notQueryVars, qPc, qAgent, qRange, qRows, qResponse>>

NextQueryAnyStore ==
    \/ \E prev \in {None} \cup {Some(h) : h \in 1..UnstoredHash}, seq \in 0..MaxSeq,
          op \in {IntegratedActivity,
                  [type |-> "RegisterAgentActivity", validation_status |-> "Valid",
                   when_integrated |-> "NULL"]} :
            FillDbAny(prev, seq, op)
    \/ \E agent \in Agents, low \in {None} \cup {Some(h) : h \in 1..UnstoredHash},
          high \in 1..UnstoredHash :
            Query(agent, <<low, high>>)
    \/ Return

SpecQueryAnyStore == InitQuery /\ [][NextQueryAnyStore]_vars

(***************************************************************************)
(* EntryCreationAction (holochain_integrity_types/src/op.rs): the view of  *)
(* the Create and Update variants of Action                                *)
(***************************************************************************)

\* the largest action_seq of a viewed action
MaxViewSeq == 1

\* the content of the variants of Action: the structs Create and Update, and for
\* the other variants the fields they carry
ActionContents(type) ==
    CASE type = "Create" ->
            {[author |-> a, action_seq |-> n, entry_hash |-> e] :
                a \in AuthorKeys, n \in 0..MaxViewSeq, e \in EntryHashes}
      [] type = "Update" ->
            {[author |-> a, action_seq |-> n, entry_hash |-> e, original_entry_address |-> o] :
                a \in AuthorKeys, n \in 0..MaxViewSeq, e \in EntryHashes, o \in EntryHashes}
      [] type \in {"Delete", "CreateLink", "DeleteLink"} ->
            {[author |-> a, action_seq |-> n, address |-> e] :
                a \in AuthorKeys, n \in 0..MaxViewSeq, e \in EntryHashes}
      [] OTHER -> {[author |-> a, action_seq |-> n] : a \in AuthorKeys, n \in 0..MaxViewSeq}

\* Action::Create(c), Action::Update(u), ...
ActionOf(type, content) == [type |-> type, content |-> content]

Actions == UNION {{ActionOf(t, c) : c \in ActionContents(t)} : t \in ActionTypes}

\* EntryCreationAction::Create(c), EntryCreationAction::Update(u)
EntryCreationActionOf(variant, content) == [entry_creation |-> variant, content |-> content]

\* ActionRef::Create(&c), ...: the variant with a reference to the content
ActionRefOf(variant, content) == [ref |-> variant, content |-> content]

\* holochain_serialized_bytes::encode of an ActionRef or an Action: the variant
\* name as the type tag, then the fields of the content
encode(variant, content) == <<"type", variant, content>>

\* the hash of hashable content: it is a function of the hash type and the bytes
HashOf(hash_type, hashable_content) == [hash_type |-> hash_type, of |-> hashable_content]

\* HashableContent for EntryCreationAction: hash_type and hashable_content
EntryCreationAction_hash(e) ==
    HashOf("Action", encode(ActionRefOf(e.entry_creation, e.content).ref,
                            ActionRefOf(e.entry_creation, e.content).content))

\* HashableContent for Action
Action_hash(action) == HashOf("Action", encode(action.type, action.content))

\* From<EntryCreationAction> for Action
Action_from(e) ==
    CASE e.entry_creation = "Create" -> ActionOf("Create", e.content)
      [] e.entry_creation = "Update" -> ActionOf("Update", e.content)

\* the mutant of try_from: an Update is not accepted
try_from_create(value) ==
    IF value.type = "Create" THEN Ok(EntryCreationActionOf("Create", value.content))
    ELSE [tag |-> "WrongActionError", val |-> value]

\* TryFrom<Action> for EntryCreationAction
try_from(value) ==
    CASE value.type = "Create" -> Ok(EntryCreationActionOf("Create", value.content))
      [] value.type = "Update" -> Ok(EntryCreationActionOf("Update", value.content))
      [] OTHER -> [tag |-> "WrongActionError", val |-> value]

InitView ==
    /\ eAction = <<>>
    /\ eView = NoResult
    /\ eBack = None
    /\ eHashes = None
    /\ IdleHash /\ IdleQuery /\ IdleDerive /\ IdleRegion /\ IdleBootstrap /\ IdleStrat /\ IdleActor /\ IdleValidation /\ IdleNetwork /\ IdleResize /\ IdleCas

\* EntryCreationAction::try_from(action)
TryFrom(action) ==
    /\ eView = NoResult
    /\ eAction' = action
    /\ eView' = try_from(action)
    /\ UNCHANGED <<notViewVars, eBack, eHashes>>

\* Action::from(e) of the view
IntoAction ==
    /\ eView.tag = "Ok"
    /\ eBack = None
    /\ eBack' = Some(Action_from(eView.val))
    /\ UNCHANGED <<notViewVars, eAction, eView, eHashes>>

\* the view and the action it came from are hashed
HashBoth ==
    /\ eView.tag = "Ok"
    /\ eHashes = None
    /\ eHashes' = Some(<<EntryCreationAction_hash(eView.val), Action_hash(Action_from(eView.val))>>)
    /\ UNCHANGED <<notViewVars, eAction, eView, eBack>>

\* the caller drops the values
DropView ==
    /\ eView # NoResult
    /\ eAction' = <<>> /\ eView' = NoResult /\ eBack' = None /\ eHashes' = None
    /\ UNCHANGED notViewVars

NextView ==
    \/ \E action \in Actions : TryFrom(action)
    \/ IntoAction
    \/ HashBoth
    \/ DropView

SpecView == InitView /\ [][NextView]_vars

(***************************************************************************)
(* Properties of EntryCreationAction                                       *)
(***************************************************************************)

\* C25: try_from succeeds exactly for Create and Update and fails with
\* WrongActionError for the other variants; Action::from of the view is the action
\* it came from; try_from of Action::from(e) is Ok(e); the view and Action::from of
\* it have the same hash, of hash type Action and of the same bytes.
C25_FaithfulView ==
    eView # NoResult =>
        /\ eView.tag = "Ok" <=> eAction.type \in {"Create", "Update"}
        /\ eView.tag # "Ok" => eView.tag = "WrongActionError"
        /\ eView.tag = "Ok" =>
              /\ Action_from(eView.val) = eAction
              /\ try_from(Action_from(eView.val)) = Ok(eView.val)
              /\ eBack # None => eBack = Some(eAction)
              /\ eHashes # None =>
                    /\ eHashes[1][1] = eHashes[1][2]
                    /\ eHashes[1][1].hash_type = "Action"
                    /\ eHashes[1][1].of = encode(eAction.type, eAction.content)

\* C25 witness: an Update was viewed, turned back into the same action, and hashed
C25_Witness ==
    /\ eView # NoResult /\ eView.tag = "Ok"
    /\ eAction.type = "Update"
    /\ eBack = Some(eAction)
    /\ eHashes # None

(***************************************************************************)
(* ChainCasBuf (holochain/src/core/state/chain_cas.rs): a store of entries *)
(* and a store of signed headers, both keyed by the hash of the content    *)
(***************************************************************************)

Entries == {"entry1", "entry2"}

Signatures == {"signature1", "signature2"}

\* Entry::entry_address
entry_address(entry) == <<"EntryHash", entry>>

\* the headers of a chain: two variants with an entry_address and one without
ChainHeaders ==
    {[type |-> "EntryCreate", entry_address |-> entry_address(e)] : e \in Entries}
        \cup {[type |-> "EntryUpdate", entry_address |-> entry_address("entry1")],
              [type |-> "Dna"]}

\* ChainHeader::hash
header_hash(header) == <<"HeaderHash", header>>

\* ChainElement::new
ChainElement(signature, header, maybe_entry) ==
    [signature |-> signature, header |-> header, entry |-> maybe_entry]

\* every ChainElement a caller can build, also one whose entry does not fit its header
ChainElements ==
    {ChainElement(s, h, e) :
        s \in Signatures, h \in ChainHeaders, e \in {None} \cup {Some(x) : x \in Entries}}

\* CasBuf::get on a store that can be read
CasBuf_get(cas, k) == Ok(IF k \in DOMAIN cas THEN Some(cas[k]) ELSE None)

\* CasBuf::put
CasBuf_put(cas, k, v) == [x \in DOMAIN cas \cup {k} |-> IF x = k THEN v ELSE cas[x]]

\* CasBuf::delete
CasBuf_delete(cas, k) == [x \in DOMAIN cas \ {k} |-> cas[x]]

get_entry(self, address) == CasBuf_get(self.entries, address)

get_header(self, header_address) == CasBuf_get(self.headers, header_address)

\* the first match of chain_element
maybe_entry_address(header) ==
    IF header.type \in {"EntryCreate", "EntryUpdate"} THEN Some(header.entry_address) ELSE None

MissingData(address) == [tag |-> "InvalidStructure", val |-> <<"MissingData", address>>]

\* the mutant of chain_element: a missing entry is not an error
chain_element_any_entry(self, signed_header) ==
    IF maybe_entry_address(signed_header.header) = None
    THEN Ok(Some(ChainElement(signed_header.signature, signed_header.header, None)))
    ELSE Ok(Some(ChainElement(signed_header.signature, signed_header.header,
                              get_entry(self, maybe_entry_address(signed_header.header)[1]).val)))

\* chain_element
chain_element(self, signed_header) ==
    IF maybe_entry_address(signed_header.header) = None
    THEN Ok(Some(ChainElement(signed_header.signature, signed_header.header, None)))
    ELSE IF get_entry(self, maybe_entry_address(signed_header.header)[1]).tag # "Ok"
    THEN get_entry(self, maybe_entry_address(signed_header.header)[1])
    ELSE IF get_entry(self, maybe_entry_address(signed_header.header)[1]).val = None
    THEN MissingData(maybe_entry_address(signed_header.header)[1])
    ELSE Ok(Some(ChainElement(signed_header.signature, signed_header.header,
                              get_entry(self, maybe_entry_address(signed_header.header)[1]).val)))

\* get_element
get_element(self, header_address) ==
    IF get_header(self, header_address).tag # "Ok" THEN get_header(self, header_address)
    ELSE IF get_header(self, header_address).val = None THEN Ok(None)
    ELSE chain_element(self, get_header(self, header_address).val[1])

\* the entries after put(v)
put_entries(self, v) ==
    IF v.entry # None THEN CasBuf_put(self.entries, entry_address(v.entry[1]), v.entry[1])
    ELSE self.entries

\* the mutant of put: the header is stored only with an entry
put_with_entry(self, v) ==
    [entries |-> put_entries(self, v),
     headers |-> IF v.entry # None
                 THEN CasBuf_put(self.headers, header_hash(v.header),
                                 [signature |-> v.signature, header |-> v.header])
                 ELSE self.headers]

\* put
put_element(self, v) ==
    [entries |-> put_entries(self, v),
     headers |-> CasBuf_put(self.headers, header_hash(v.header),
                            [signature |-> v.signature, header |-> v.header])]

\* the mutant of delete_entry: the headers of the entry go with it
delete_entry_and_headers(self, k) ==
    [entries |-> CasBuf_delete(self.entries, k),
     headers |-> [h \in {x \in DOMAIN self.headers :
                            maybe_entry_address(self.headers[x].header) # Some(k)}
                     |-> self.headers[h]]]

\* delete_entry
delete_entry(self, k) == [self EXCEPT !.entries = CasBuf_delete(self.entries, k)]

\* delete_header
delete_header(self, k) == [self EXCEPT !.headers = CasBuf_delete(self.headers, k)]

\* the element carries an entry exactly when its header is EntryCreate or EntryUpdate,
\* and the address of the entry is the entry_address of the header
CarriesItsEntry(v) ==
    IF maybe_entry_address(v.header) = None THEN v.entry = None
    ELSE v.entry # None /\ Some(entry_address(v.entry[1])) = maybe_entry_address(v.header)

\* ChainCasBuf::new over empty stores
InitCas ==
    /\ cCas = [entries |-> <<>>, headers |-> <<>>]
    /\ cWrite = ""
    /\ cDeleted = FALSE
    /\ cPut = {}
    /\ cRead = <<>>
    /\ IdleHash /\ IdleQuery /\ IdleDerive /\ IdleRegion /\ IdleBootstrap /\ IdleStrat /\ IdleActor /\ IdleValidation /\ IdleNetwork /\ IdleResize /\ IdleView

Put(v) ==
    /\ cCas' = put_element(cCas, v)
    /\ cWrite' = "put"
    /\ cPut' = IF CarriesItsEntry(v) THEN cPut \cup {v.header} ELSE cPut
    /\ cRead' = <<>>
    /\ UNCHANGED <<notCasVars, cDeleted>>

DeleteEntry(k) ==
    /\ cCas' = delete_entry(cCas, k)
    /\ cWrite' = "delete_entry"
    /\ cDeleted' = TRUE
    /\ cRead' = <<>>
    /\ UNCHANGED <<notCasVars, cPut>>

DeleteHeader(k) ==
    /\ cCas' = delete_header(cCas, k)
    /\ cWrite' = "delete_header"
    /\ cDeleted' = TRUE
    /\ cRead' = <<>>
    /\ UNCHANGED <<notCasVars, cPut>>

GetElement(header_address) ==
    /\ cRead' = <<header_address, get_element(cCas, header_address)>>
    /\ UNCHANGED <<notCasVars, cCas, cWrite, cDeleted, cPut>>

NextCas ==
    \/ \E v \in ChainElements : Put(v)
    \/ \E e \in Entries : DeleteEntry(entry_address(e))
    \/ \E h \in ChainHeaders : DeleteHeader(header_hash(h))
    \/ \E h \in ChainHeaders : GetElement(header_hash(h))

SpecCas == InitCas /\ [][NextCas]_vars

\* the header stored under the address of the last get_element
ReadHeader == cCas.headers[cRead[1]].header

ElementsWithTheirEntry == {v \in ChainElements : CarriesItsEntry(v)}

\* what get_element returns for such an element, whatever the signature stored last
Stored(header) ==
    {Ok(Some(v)) : v \in {x \in ElementsWithTheirEntry : x.header = header}}

\* C27: right after put(v) of an element that carries an entry exactly when its
\* header is EntryCreate or EntryUpdate, under the entry_address of the header,
\* get_element(hash(v.header)) is Ok(Some(v)); and as long as nothing was
\* deleted, get_element of every such element put so far is Ok(Some(element))
\* of its header and entry, never MissingData
C27_PutGetRoundTrip ==
    [][/\ \A v \in ElementsWithTheirEntry :
            (cWrite' = "put" /\ v.header \in cPut' /\ cCas' = put_element(cCas, v))
                => get_element(cCas', header_hash(v.header)) = Ok(Some(v))
       /\ ~cDeleted' =>
            \A header \in cPut' :
                get_element(cCas', header_hash(header)) \in Stored(header)]_vars

\* an element put with its entry was read back after a later put, with no delete
C27_Witness ==
    /\ ~cDeleted /\ cWrite = "put" /\ Cardinality(cPut) >= 2
    /\ Len(cRead) = 2
    /\ \E header \in cPut :
        /\ cRead[1] = header_hash(header)
        /\ header.type = "EntryUpdate"
        /\ cRead[2].tag = "Ok"
        /\ cRead[2].val[1].entry = Some("entry1")

\* the headers stored with the entry_address k
HeadersOfEntry(self, k) ==
    {h \in DOMAIN self.headers : maybe_entry_address(self.headers[h].header) = Some(k)}

\* C28: delete_entry(k) removes the entry k and nothing else, and then
\* get_element of every stored header of that entry is Err(MissingData(k));
\* delete_header(k) removes the header k and nothing else, and then
\* get_element(k) is Ok(None) while get_entry returns what it returned before
C28_DeletesNotElementAtomic ==
    [][/\ \A e \in Entries :
            (cWrite' = "delete_entry" /\ cCas' = delete_entry(cCas, entry_address(e))) =>
                /\ cCas'.headers = cCas.headers
                /\ DOMAIN cCas'.entries = DOMAIN cCas.entries \ {entry_address(e)}
                /\ \A a \in DOMAIN cCas'.entries : cCas'.entries[a] = cCas.entries[a]
                /\ \A h \in HeadersOfEntry(cCas', entry_address(e)) :
                        get_element(cCas', h) = MissingData(entry_address(e))
       /\ \A header \in ChainHeaders :
            (cWrite' = "delete_header" /\ cCas' = delete_header(cCas, header_hash(header))) =>
                /\ cCas'.entries = cCas.entries
                /\ DOMAIN cCas'.headers = DOMAIN cCas.headers \ {header_hash(header)}
                /\ \A h \in DOMAIN cCas'.headers : cCas'.headers[h] = cCas.headers[h]
                /\ get_element(cCas', header_hash(header)) = Ok(None)
                /\ \A e \in Entries :
                        get_entry(cCas', entry_address(e)) = get_entry(cCas, entry_address(e))]_vars

\* delete_entry left two stored headers of the deleted entry, and one was read
C28_Witness ==
    /\ cWrite = "delete_entry"
    /\ Cardinality(HeadersOfEntry(cCas, entry_address("entry1"))) = 2
    /\ entry_address("entry1") \notin DOMAIN cCas.entries
    /\ \A header \in ChainHeaders :
            maybe_entry_address(header) = Some(entry_address("entry1")) => header \in cPut
    /\ Len(cRead) = 2 /\ cRead[2] = MissingData(entry_address("entry1"))

\* delete_header removed the header of an element put with its entry, the entry stays
C28_HeaderDeleted ==
    /\ cWrite = "delete_header"
    /\ \E header \in cPut :
        /\ header_hash(header) \notin DOMAIN cCas.headers
        /\ maybe_entry_address(header) # None
        /\ header.entry_address \in DOMAIN cCas.entries
        /\ cRead = <<header_hash(header), Ok(None)>>

====
